---- MODULE Spec2Model ----
(***************************************************************************)
(* Postura squat coach: repetition FSM, temporal gate, coaching rules and  *)
(* the per-frame loop of CameraCanvas.                                     *)
(*                                                                         *)
(* Numbers are fixed point:                                                *)
(*   depth fractions and hip heights  in units of 0.0001                   *)
(*   angles                           in units of 0.01 degree              *)
(*   visibilities                     in units of 0.01                     *)
(*   times                            in milliseconds                      *)
(***************************************************************************)
EXTENDS Integers, Sequences, FiniteSets, TLC

\* JavaScript null / undefined for numeric slots.
null == -999999

\* ------------------------------------------------------------------------
\* Bounds of the exploration
\* ------------------------------------------------------------------------
\* the rep counter is unbounded in the code; sessions are followed up to here
MaxReps == 2
\* longest push history followed for a stand-alone TemporalGate
MaxPushes == 5
\* largest window of a stand-alone TemporalGate
MaxGateMax == 3
\* largest trunk angle (degrees) offered to a stand-alone rule evaluation
MaxRuleDeg == 40
\* the dwell counter is unbounded in the code; a hold at coaching depth is
\* followed for this many consecutive frames
MaxConsec == 3
\* the gates' window, their threshold and the dwell are followed up to
\* these sizes (the components use 10 / 7 / 5 and 8 / 6 / 5)
MaxGateWindow == 4
MaxGateNeed == 3
MaxDwell == 2
\* runs of the effect (sessions) followed from the mount on
MaxSessions == 2
\* torn-down sessions whose start() is still pending that are followed, and
\* the loop iterations such a session is followed for (fewer than
\* CALIB_FRAMES: a session this young is still calibrating)
MaxStale == 1
MaxStaleTicks == 2

\* ------------------------------------------------------------------------
\* State
\* ------------------------------------------------------------------------
VARIABLES
    fsm,        \* RepContext: [state, reps, lastHipY, depthReached]
    call,       \* arguments of the latest stepFSM call (observation)
    cycleOK,    \* observation: depthOkay was true on a stepFSM call of the
                \* current cycle (since the latest entry into descent)
    gate,       \* a stand-alone TemporalGate: [made, max, need, buf]
    pushed,     \* observation: values pushed since construction / reset
    ret,        \* observation: what the latest gate operation returned
    rulesIn,    \* arguments of the latest checkRulesAtBottom call
    rulesOut,   \* the Cue[] it returned (sequence of cue types)
    \* --- CameraCanvas: one session (one run of the effect) ---
    variant,            \* "knee" (knee-only component) or "hipknee"
    smPrev,             \* PoseSmoother.prev, visibilities of the tracked joints
    kneeSmoothed,       \* EMA of the knee angle, null before the first pose
    trunkSmoothed,      \* EMA of the trunk angle
    trunkBaseBuf,       \* calibration buffer
    calibDone,          \* calibDone / haveTop
    trunkBaselineRef,   \* trunkBaselineRef.current
    repGate,            \* repGate.buf
    coachGate,          \* coachGate.buf
    coachConsec,        \* dwell counter
    spokeCueTypeThisRep,\* per-rep cue memory: "null", "depth", "trunk"
    prevDepthFSMRef,    \* prevDepthFSMRef.current
    prevVelRef,         \* prevVelRef.current
    sinceTransition,    \* performance.now() - lastTransitionAtRef.current at
                        \* the latest tick, saturated above MIN_TRANSITION_MS
    lastCue,            \* React state lastCue: "null", "depth", "trunk"
    \* --- state of the hip+knee component only ---
    topYBuf,            \* calibration buffer of hip heights
    scaleBuf,           \* calibration buffer of scale candidates
    hipYWindow,         \* the latest (at most 20) hip heights
    topY,               \* reference hip height, null before calibration
    scale,              \* scale unit, null before calibration
    lastHipYRef,        \* lastHipYRef.current
    learnedCoachHipRef, \* learnedCoachHipRef.current
    learnedCoachKneeRef,\* learnedCoachKneeRef.current
    goodBottomHip,      \* hip depths recorded at good bottoms
    goodBottomKnee,     \* knee angles recorded at good bottoms
    \* --- observations of the session ---
    frame,              \* what the latest tick read and did
    sinceChange,        \* time since the latest FSM state change (or the
                        \* start of the loop), saturated like sinceTransition
    changeGap,          \* sinceChange as it was at the latest state change
    cuesThisCycle,      \* kinds emitted since the latest lockout -> descent
    dupCue,             \* the latest tick emitted a kind already emitted
                        \* in the same cycle
    \* --- the component: React state and the life of the effect ---
    pc,                 \* where start() of the current session is:
                        \* "initPose", "getUserMedia", "play" (awaiting),
                        \* "loop", "failed", or "unmounted"
    raf,                \* a frame callback of the current session is pending
    enabled,            \* useTTS: enabled
    useFront,           \* useFront
    session,            \* runs of the effect so far
    stale,              \* where start() of each torn-down session is whose
                        \* start() was still pending at its cleanup
    staleTicks,         \* loop iterations run by torn-down sessions
    calibrated,         \* React state calibrated (the status label)
    \* --- a PoseSmoother of its own, called on any keypoints ---
    sm,                 \* the PoseSmoother: [hasPrev, prev, fx, fy]
    smCall,             \* observation: the latest apply call
    smConst,            \* observation: per joint, whether every call so far
                        \* passed the same visible point
    \* --- the depth mappings, evaluated on any angle and height ---
    depthCall,          \* the latest two evaluations
    \* --- pose.ts: the module-level landmarker and the initPose calls ---
    landmarker,         \* landmarker != null
    initCalls,          \* where each initPose call is
    created,            \* PoseLandmarker.createFromOptions calls so far
    scaleCall,          \* the latest evaluation of scaleCandidate
    \* --- useTTS, called on its own ---
    tts,                \* the clock, lastSpoke.current and the latest call
    \* --- start() and the cleanup of the effect, on their own ---
    cam,                \* currentStream.current, the streams acquired and
                        \* where each start() is
    \* --- a scripted session ---
    scen                \* the script being played and the frame it is at

fsmVars == <<fsm, call, cycleOK>>
gateVars == <<gate, pushed, ret>>
rulesVars == <<rulesIn, rulesOut>>
hkVars == <<topYBuf, scaleBuf, hipYWindow, topY, scale, lastHipYRef,
            learnedCoachHipRef, learnedCoachKneeRef, goodBottomHip,
            goodBottomKnee>>
loopVars == <<variant, smPrev, kneeSmoothed, trunkSmoothed, trunkBaseBuf,
              calibDone, trunkBaselineRef, repGate, coachGate, coachConsec,
              spokeCueTypeThisRep, prevDepthFSMRef, prevVelRef,
              sinceTransition, lastCue, hkVars>>
obsVars == <<frame, sinceChange, changeGap, cuesThisCycle, dupCue>>
sessVars == <<pc, raf, enabled, useFront, session, stale, staleTicks>>
\* what a loop iteration leaves alone of these (it re-arms raf)
compVars == <<pc, enabled, useFront, session, stale, staleTicks>>
smVars == <<sm, smCall, smConst>>
poseVars == <<landmarker, initCalls, created>>
aloneVars == <<smVars, depthCall, scaleCall, poseVars, tts, cam>>
hudVars == <<calibrated, scen>>
vars == <<fsmVars, gateVars, rulesVars, loopVars, obsVars, sessVars,
          aloneVars, hudVars>>

\* ------------------------------------------------------------------------
\* fsm.ts
\* ------------------------------------------------------------------------
State == {"idle", "descent", "bottom", "ascent", "lockout"}

createFSM == [state |-> "idle", reps |-> 0, lastHipY |-> null, depthReached |-> FALSE]

\* const vy = ctx.lastHipY == null ? 0 : hipY - ctx.lastHipY
vyOf(ctx, hipY) == IF ctx.lastHipY = null THEN 0 ELSE hipY - ctx.lastHipY

\* velocity bands of stepFSM: 0.002 and 0.001
VyMove == 20
VyStill == 10

\* the switch of stepFSM: the state after a call that sees velocity vy with
\* the depth flag depthReached (stored flag OR-ed with the call's depthOkay)
fsmNextState_BottomNoDepth(state, vy, depthReached) ==
    LET still == vy > -VyStill /\ vy < VyStill
    IN  CASE state = "idle" -> IF vy > VyMove THEN "descent" ELSE "idle"
          [] state = "descent" ->
                IF still THEN "bottom"
                ELSE IF vy < -VyMove THEN "ascent" ELSE "descent"
          [] state = "bottom" -> IF vy < -VyMove THEN "ascent" ELSE "bottom"
          [] state = "ascent" -> IF still THEN "lockout" ELSE "ascent"
          [] state = "lockout" -> IF vy > VyMove THEN "descent" ELSE "lockout"
fsmNextState(state, vy, depthReached) ==
    LET still == vy > -VyStill /\ vy < VyStill
    IN  CASE state = "idle" -> IF vy > VyMove THEN "descent" ELSE "idle"
          [] state = "descent" ->
                IF still /\ depthReached THEN "bottom"
                ELSE IF vy < -VyMove THEN "ascent" ELSE "descent"
          [] state = "bottom" -> IF vy < -VyMove THEN "ascent" ELSE "bottom"
          [] state = "ascent" -> IF still THEN "lockout" ELSE "ascent"
          [] state = "lockout" -> IF vy > VyMove THEN "descent" ELSE "lockout"

stepFSM_CountAlways(ctx, hipY, depthOkay) ==
    LET vy == vyOf(ctx, hipY)
        depthReached == ctx.depthReached \/ depthOkay
        lock == ctx.state = "ascent" /\ vy > -VyStill /\ vy < VyStill
    IN  [state |-> fsmNextState(ctx.state, vy, depthReached),
         reps |-> IF lock THEN ctx.reps + 1 ELSE ctx.reps,
         lastHipY |-> hipY,
         depthReached |-> IF lock THEN FALSE ELSE depthReached]
stepFSM(ctx, hipY, depthOkay) ==
    LET vy == vyOf(ctx, hipY)
        depthReached == ctx.depthReached \/ depthOkay
        \* case 'ascent': if (vy > -0.001 && vy < 0.001) { ... }
        lock == ctx.state = "ascent" /\ vy > -VyStill /\ vy < VyStill
    IN  [state |-> fsmNextState(ctx.state, vy, depthReached),
         reps |-> IF lock /\ depthReached THEN ctx.reps + 1 ELSE ctx.reps,
         lastHipY |-> hipY,
         depthReached |-> IF lock THEN FALSE ELSE depthReached]

\* ------------------------------------------------------------------------
\* temporal.ts
\* ------------------------------------------------------------------------
CountTrue(buf) == Cardinality({i \in 1..Len(buf) : buf[i]})

\* this.buf.push(v); if (this.buf.length > this.max) this.buf.shift()
GateBufPush_NoShift(buf, max, v) == Append(buf, v)
GateBufPush(buf, max, v) ==
    LET b == Append(buf, v)
    IN  IF Len(b) > max THEN Tail(b) ELSE b

\* return this.buf.filter(Boolean).length >= this.need
GateResult(buf, need) == CountTrue(buf) >= need

\* ------------------------------------------------------------------------
\* rules.ts
\* ------------------------------------------------------------------------
\* default of trunkDeltaThreshold (delta variant) / trunkThreshold (older one)
DefaultThreshold(flavour) == IF flavour = "delta" THEN 1800 ELSE 3500

\* opts = [variant, depthAchieved, trunkDeltaDeg, trunkDeltaThreshold];
\* the result is the sequence of the types of the cues pushed.
checkRulesAtBottom(opts) ==
    LET thr == IF opts.trunkDeltaThreshold = null
               THEN DefaultThreshold(opts.variant)
               ELSE opts.trunkDeltaThreshold
        c1 == IF ~opts.depthAchieved THEN <<"depth">> ELSE <<>>
        c2 == IF opts.trunkDeltaDeg # null /\ opts.trunkDeltaDeg > thr
              THEN <<"trunk">> ELSE <<>>
    IN  c1 \o c2

\* ------------------------------------------------------------------------
\* angles.ts, smoothing.ts (visibility path) and the constants of CameraCanvas
\* ------------------------------------------------------------------------
Max(a, b) == IF a >= b THEN a ELSE b
Min(a, b) == IF a <= b THEN a ELSE b

\* ema(prev, curr, alpha = 0.35), rounded to the 0.01 degree
EmaAlphaPct == 35
ema(prev, curr) ==
    IF prev = null THEN curr
    ELSE (prev * (100 - EmaAlphaPct) + curr * EmaAlphaPct + 50) \div 100

\* clamp01 of the fraction num / den (den > 0), in units of 0.0001
clamp01_NoCeiling(num, den) == Max(0, (num * 10000) \div den)
clamp01(num, den) == Max(0, Min(10000, (num * 10000) \div den))

\* median(arr) of the hip+knee component; the knee-only one inlines it.
\* The mean of the two middle values is rounded down to the unit.
median_Lowest(arr) ==
    IF Len(arr) = 0 THEN 0 ELSE SortSeq(arr, LAMBDA x, y : x < y)[1]
median(arr) ==
    LET a == SortSeq(arr, LAMBDA x, y : x < y)
        n == Len(a)
        mid == n \div 2
    IN  IF n = 0 THEN 0
        ELSE IF n % 2 = 1 THEN a[mid + 1]
        ELSE (a[mid] + a[mid + 1]) \div 2

\* stddev(arr) < 0.0009 on heights in units of 0.0001, without the root:
\* sum((v - m)^2) / (n - 1) < 0.0009^2, multiplied through by n (n - 1).
\* The sums run over the offsets from the first sample, which leaves the
\* deviation as it is and keeps the products in range.
StillStd == 9
SumSeq(arr) == LET RECURSIVE S(_)
                   S(i) == IF i = 0 THEN 0 ELSE arr[i] + S(i - 1)
               IN  S(Len(arr))
Still_Population(arr) ==
    LET n == Len(arr)
        d == [i \in 1..n |-> arr[i] - arr[1]]
        sq == [i \in 1..n |-> d[i] * d[i]]
    IN  IF n < 2 THEN TRUE
        ELSE n * SumSeq(sq) - SumSeq(d) * SumSeq(d) < StillStd * StillStd * n * n
Still(arr) ==
    LET n == Len(arr)
        d == [i \in 1..n |-> arr[i] - arr[1]]
        sq == [i \in 1..n |-> d[i] * d[i]]
    IN  IF n < 2 THEN TRUE
        ELSE n * SumSeq(sq) - SumSeq(d) * SumSeq(d)
                < StillStd * StillStd * n * (n - 1)

\* hipYWindow.push(nowHipY); if (hipYWindow.length > 20) hipYWindow.shift()
HipWindow == 20
WindowPush(win, y) ==
    LET w == Append(win, y)
    IN  IF Len(w) > HipWindow THEN Tail(w) ELSE w

\* new PoseSmoother(1.4, 0.006, 1.0, 0.07, 0.15): visThresh
VisThresh == 15
\* profile check: visibility > 0.55
ProfileVis == 55
\* ankle check of the hip+knee component: visibility > 0.45
AnkleVis == 45

Joints == {"lh", "lk", "rh", "rk", "la", "ra"}
NoPrev == [has |-> FALSE, v |-> [j \in Joints |-> 0]]

\* PoseSmoother.apply, visibility of each output point: a joint below
\* visThresh yields prev[i] (or a copy of the raw point when there is no
\* prev), any other joint carries the raw visibility.
SmootherApply(prev, kps) ==
    [j \in Joints |->
        IF kps[j] < VisThresh
        THEN (IF prev.has THEN prev.v[j] ELSE kps[j])
        ELSE kps[j]]

\* leftSideOK || rightSideOK
ProfileOK(kps) ==
    \/ kps["lh"] > ProfileVis /\ kps["lk"] > ProfileVis
    \/ kps["rh"] > ProfileVis /\ kps["rk"] > ProfileVis

\* ankVis
AnkVis(kps) == kps["la"] > AnkleVis /\ kps["ra"] > AnkleVis

\* scaleCandidate: shoulder -> ankle span, or 1.8 hip -> knee spans, each
\* floored at 0.05; body = [hipY, kneeY, shY, anY] are the centre heights
ScaleFloor == 500
ScaleCandidate(ankVis, body) ==
    IF ankVis THEN Max(ScaleFloor, body.shY - body.anY)
    ELSE (Max(ScaleFloor, body.hipY - body.kneeY) * 18) \div 10

\* thresholds of the two components, by variant
REP_KNEE_DEG(v) == IF v = "knee" THEN 65 ELSE 70
COACH_KNEE_DEG(v) == IF v = "knee" THEN 60 ELSE 50
MIN_TRANSITION_MS(v) == IF v = "knee" THEN 160 ELSE 140
CALIB_FRAMES(v) == IF v = "knee" THEN 60 ELSE 90
REP_HIP_DEPTH == 4500
COACH_HIP_DEPTH == 5200
\* knee-depth normalisation: 180 -> 0 and COACH_KNEE_DEG (knee-only) or the
\* literal 50 (hip+knee) -> 1
KneeDepthTarget(v) == IF v = "knee" THEN COACH_KNEE_DEG(v) ELSE 50
\* GATE_WINDOW, GATE_NEED and COACH_DWELL_FRAMES / DWELL_FRAMES of the two
\* components, followed up to the bounds MaxGateWindow, MaxGateNeed and
\* MaxDwell (which keep the shape dwell < need < window)
GateWindowOf(v) == IF v = "knee" THEN 10 ELSE 8
GateNeedOf(v) == IF v = "knee" THEN 7 ELSE 6
\* COACH_DWELL_FRAMES (knee-only) and DWELL_FRAMES (hip+knee)
DwellOf(v) == IF v = "knee" THEN 5 ELSE 5
GATE_WINDOW(v) == Min(GateWindowOf(v), MaxGateWindow)
GATE_NEED(v) == Min(GateNeedOf(v), MaxGateNeed)
COACH_DWELL_FRAMES(v) == Min(DwellOf(v), MaxDwell)
\* calibration admits kneeNow >= 170 and trunkNow <= 12
UprightKneeDeg == 170
UprightTrunkDeg == 12
\* trunkDeltaThreshold handed to checkRulesAtBottom
TrunkDeltaThresholdDeg == 16
\* turnaround detector: prevVel > 0.003 and vel <= 0.0008
TurnPrevVel == 30
TurnVel == 8
\* learned targets: hip in [0.50, 0.65] after - 0.01, knee in [50, 75]
LearnHipLo == 5000
LearnHipHi == 6500
LearnHipOff == 100
LearnKneeLo == 50
LearnKneeHi == 75
LearnAfter == 2

\* ages of lastTransitionAtRef beyond the threshold are indistinguishable
\* to the comparison nowMs - lastTransitionAtRef.current > MIN_TRANSITION_MS
Sat(v, age) == Min(age, MIN_TRANSITION_MS(v) + 1)

\* const canTransition = (nowMs - lastTransitionAtRef.current) > MIN_TRANSITION_MS
CanTransition_NoThrottle(v, age) == TRUE
CanTransition(v, age) == age > MIN_TRANSITION_MS(v)

\* if (canTransition) { const next = stepFSM(fsm, depthFSM, repOK); ...; fsm = next }
ThrottledStep_TrackHip(ctx, canTransition, depthFSM, repOK) ==
    IF canTransition THEN stepFSM(ctx, depthFSM, repOK)
    ELSE [ctx EXCEPT !.lastHipY = depthFSM]
ThrottledStep(ctx, canTransition, depthFSM, repOK) ==
    IF canTransition THEN stepFSM(ctx, depthFSM, repOK) ELSE ctx

\* const shouldEval = profileOK && (justHitBottom || bottomTurn)
ShouldEval_NoProfile(profileOK, justHitBottom, bottomTurn) ==
    justHitBottom \/ bottomTurn
ShouldEval(profileOK, justHitBottom, bottomTurn) ==
    profileOK /\ (justHitBottom \/ bottomTurn)

\* if (prevState === 'lockout' && fsm.state === 'descent') { ...reset... }
NewRep_AnyDescent(prevState, state) == prevState # "descent" /\ state = "descent"
NewRep(prevState, state) == prevState = "lockout" /\ state = "descent"

\* const first = cues.find(c => c.type !== spokeCueTypeThisRep)
FindFirst_All(cues, spoke) == SelectSeq(cues, LAMBDA c : c # spoke)
FindFirst(cues, spoke) ==
    LET idx == {i \in 1..Len(cues) : cues[i] # spoke}
    IN  IF idx = {} THEN <<>>
        ELSE <<cues[CHOOSE i \in idx : \A k \in idx : i <= k]>>

\* ------------------------------------------------------------------------
\* smoothing.ts: LowPass, OneEuro1D and PoseSmoother, as CameraCanvas
\* constructs it: new PoseSmoother(1.4, 0.006, 1.0, 0.07, 0.15).
\* Positions are in units of 0.0001 of the image, timestamps in units of
\* 0.1 ms (the floor of dt), speeds in units of 0.0001 per second, cutoffs
\* in mHz and filter coefficients in units of 0.0001; quotients are rounded
\* to the unit.
\* ------------------------------------------------------------------------
MinCutoff == 1400
\* beta, in mHz per unit of speed (1.0 per second)
Beta == 6
DCutoff == 1000
MaxJump == 700

Abs(x) == IF x < 0 THEN -x ELSE x

\* tau = 1 / (2 * Math.PI * cutoff), in units of 0.1 ms
Tau(cutoff) == 1591549 \div cutoff
\* alpha(dt, cutoff) = 1 / (1 + tau / dt); OneEuro1D never passes dt = 0
alpha(dt, cutoff) == (10000 * dt) \div (dt + Tau(cutoff))

\* LowPass: [init, y]
NewLowPass == [init |-> FALSE, y |-> 0]
\* LowPass.filter(x, dt): the new state and the value returned
LowPassFilter_ZeroInit(lp, x, dt, cutoff) ==
    IF ~lp.init THEN [lp |-> [init |-> TRUE, y |-> 0], out |-> x]
    ELSE LET y1 == lp.y + (alpha(dt, cutoff) * (x - lp.y)) \div 10000
         IN  [lp |-> [init |-> TRUE, y |-> y1], out |-> y1]
LowPassFilter(lp, x, dt, cutoff) ==
    IF ~lp.init THEN [lp |-> [init |-> TRUE, y |-> x], out |-> x]
    ELSE LET y1 == lp.y + (alpha(dt, cutoff) * (x - lp.y)) \div 10000
         IN  [lp |-> [init |-> TRUE, y |-> y1], out |-> y1]

\* OneEuro1D: [init, lastX, lastT, xLP, dxLP]
NewOneEuro == [init |-> FALSE, lastX |-> 0, lastT |-> 0,
               xLP |-> NewLowPass, dxLP |-> NewLowPass]
\* OneEuro1D.filter(x, t): the new state and the value returned
OneEuroFilter(f, x, t) ==
    IF ~f.init
    THEN [f |-> [f EXCEPT !.init = TRUE, !.lastX = x, !.lastT = t], out |-> x]
    ELSE LET dt == Max(1, t - f.lastT)
             dx == ((x - f.lastX) * 10000) \div dt
             d == LowPassFilter(f.dxLP, dx, dt, DCutoff)
             cutoff == MinCutoff + (Beta * Abs(d.out)) \div 10000
             r == LowPassFilter(f.xLP, x, (dt * cutoff) \div MinCutoff, MinCutoff)
         IN  [f |-> [init |-> TRUE, lastX |-> x, lastT |-> t,
                     xLP |-> r.lp, dxLP |-> d.lp],
              out |-> r.out]

\* the joints of the pose followed through the smoother
SmJoints == {1, 2}
\* a point: x, y and visibility (null when the detector gives none)
NoPoint == [x |-> null, y |-> null, visibility |-> null]
NewSmoother == [hasPrev |-> FALSE,
                prev |-> [j \in SmJoints |-> NoPoint],
                fx |-> [j \in SmJoints |-> NewOneEuro],
                fy |-> [j \in SmJoints |-> NewOneEuro]]

\* Math.hypot(dx, dy), rounded up to the unit (so that the rounding never
\* lengthens a clamped step)
RECURSIVE RootBetween(_, _, _)
RootBetween(n, lo, hi) ==
    IF lo >= hi THEN lo
    ELSE LET mid == (lo + hi + 1) \div 2
         IN  IF mid * mid <= n THEN RootBetween(n, mid, hi)
             ELSE RootBetween(n, lo, mid - 1)
Hypot(dx, dy) ==
    LET n == dx * dx + dy * dy
        r == RootBetween(n, 0, 15000)
    IN  IF r * r = n THEN r ELSE r + 1

\* dx * scale with scale = maxJump / mag, rounded towards zero
Scaled(d, mag) ==
    IF d >= 0 THEN (d * MaxJump) \div mag ELSE -(((-d) * MaxJump) \div mag)

\* v < this.visThresh, with v = p.visibility ?? 0
Hidden(p) == (IF p.visibility = null THEN 0 ELSE p.visibility) < VisThresh

\* the despike: what is handed to the filters for a visible point p
Despike_NoClamp(hasPrev, prev, p) == [x |-> p.x, y |-> p.y]
Despike(hasPrev, prev, p) ==
    LET px == IF hasPrev THEN prev.x ELSE p.x
        py == IF hasPrev THEN prev.y ELSE p.y
        dx == p.x - px
        dy == p.y - py
    IN  IF dx * dx + dy * dy > MaxJump * MaxJump
        THEN [x |-> px + Scaled(dx, Hypot(dx, dy)),
              y |-> py + Scaled(dy, Hypot(dx, dy))]
        ELSE [x |-> p.x, y |-> p.y]

\* PoseSmoother.apply(kps, timeSec): the new smoother, what was handed to
\* the filters of each joint, the array returned and the array passed as
\* the call leaves it
apply_FilterHidden(s, kps, t) ==
    LET toFilter(j) == Despike(s.hasPrev, s.prev[j], kps[j])
        rx(j) == OneEuroFilter(s.fx[j], toFilter(j).x, t)
        ry(j) == OneEuroFilter(s.fy[j], toFilter(j).y, t)
        out == [j \in SmJoints |->
                   IF Hidden(kps[j])
                   THEN (IF s.hasPrev THEN s.prev[j] ELSE kps[j])
                   ELSE [x |-> rx(j).out, y |-> ry(j).out,
                         visibility |-> kps[j].visibility]]
    IN  [s |-> [hasPrev |-> TRUE,
                prev |-> out,
                fx |-> [j \in SmJoints |-> rx(j).f],
                fy |-> [j \in SmJoints |-> ry(j).f]],
         fed |-> [j \in SmJoints |->
                     IF Hidden(kps[j]) THEN [on |-> FALSE, x |-> null, y |-> null]
                     ELSE [on |-> TRUE, x |-> toFilter(j).x, y |-> toFilter(j).y]],
         out |-> out,
         kps |-> kps]
apply(s, kps, t) ==
    LET toFilter(j) == Despike(s.hasPrev, s.prev[j], kps[j])
        rx(j) == OneEuroFilter(s.fx[j], toFilter(j).x, t)
        ry(j) == OneEuroFilter(s.fy[j], toFilter(j).y, t)
        out == [j \in SmJoints |->
                   IF Hidden(kps[j])
                   THEN (IF s.hasPrev THEN s.prev[j] ELSE kps[j])
                   ELSE [x |-> rx(j).out, y |-> ry(j).out,
                         visibility |-> kps[j].visibility]]
    IN  [s |-> [hasPrev |-> TRUE,
                prev |-> out,
                fx |-> [j \in SmJoints |-> IF Hidden(kps[j]) THEN s.fx[j] ELSE rx(j).f],
                fy |-> [j \in SmJoints |-> IF Hidden(kps[j]) THEN s.fy[j] ELSE ry(j).f]],
         fed |-> [j \in SmJoints |->
                     IF Hidden(kps[j]) THEN [on |-> FALSE, x |-> null, y |-> null]
                     ELSE [on |-> TRUE, x |-> toFilter(j).x, y |-> toFilter(j).y]],
         out |-> out,
         kps |-> kps]

NoSmCall == [n |-> 0, t |-> 0, kps |-> [j \in SmJoints |-> NoPoint],
             after |-> [j \in SmJoints |-> NoPoint],
             hadPrev |-> FALSE, prev |-> [j \in SmJoints |-> NoPoint],
             fed |-> [j \in SmJoints |-> [on |-> FALSE, x |-> null, y |-> null]],
             out |-> [j \in SmJoints |-> NoPoint]]

\* ------------------------------------------------------------------------
\* Initial values of the observations added for the stand-alone evaluations
\* ------------------------------------------------------------------------
NoDepthEval == [made |-> FALSE, knee |-> 0, hipY |-> 0, topY |-> 0, scale |-> 0,
                hip |-> 0, kneeDepth |-> 0, fsm |-> 0]
NoDepthCall == [cur |-> NoDepthEval, prev |-> NoDepthEval]
NoScaleCall == [made |-> FALSE, kps |-> [j \in Joints |-> 0],
                body |-> [hipY |-> 0, kneeY |-> 0, shY |-> 0, anY |-> 0],
                cand |-> 0]

\* useTTS(1200): lastSpoke = useRef(0); nothing called yet (times in ms)
MinGapMs == 1200
NewTTS == [now |-> 0, lastSpoke |-> 0, n |-> 0, op |-> "none", handed |-> FALSE,
           closure |-> FALSE, synth |-> FALSE, before |-> 0,
           spoken |-> null, spokenBefore |-> null, tested |-> null]

\* currentStream = useRef(null); no start() yet, no stream acquired
NewCam == [current |-> 0, live |-> {}, acquired |-> 0, starts |-> <<>>,
           mounted |-> FALSE]

NoScen == [name |-> "none", at |-> 0, cues |-> 0]

\* ------------------------------------------------------------------------
\* Initial state: everything as constructed
\* ------------------------------------------------------------------------
NoCall == [hipY |-> null, depthOkay |-> FALSE, from |-> "idle"]
NoGate == [made |-> FALSE, max |-> 0, need |-> 0, buf |-> <<>>]
NoRules == [variant |-> "none", depthAchieved |-> FALSE,
            trunkDeltaDeg |-> null, trunkDeltaThreshold |-> null]

Variants == {"knee", "hipknee"}
NoFrame == [kind |-> "none", knee |-> null, trunk |-> null,
            shouldEval |-> FALSE, emitted |-> <<>>, depthAchieved |-> FALSE,
            raw |-> [j \in Joints |-> 0], profileOK |-> FALSE]

Init ==
    /\ fsm = createFSM
    /\ call = NoCall
    /\ cycleOK = FALSE
    /\ gate = NoGate
    /\ pushed = <<>>
    /\ ret = FALSE
    /\ rulesIn = NoRules
    /\ rulesOut = <<>>
    /\ variant \in Variants
    /\ smPrev = NoPrev
    /\ kneeSmoothed = null
    /\ trunkSmoothed = null
    /\ trunkBaseBuf = <<>>
    /\ calibDone = FALSE
    /\ trunkBaselineRef = null
    /\ repGate = <<>>
    /\ coachGate = <<>>
    /\ coachConsec = 0
    /\ spokeCueTypeThisRep = "null"
    /\ prevDepthFSMRef = null
    /\ prevVelRef = null
    /\ sinceTransition = 0
    /\ lastCue = "null"
    /\ topYBuf = <<>>
    /\ scaleBuf = <<>>
    /\ hipYWindow = <<>>
    /\ topY = null
    /\ scale = null
    /\ lastHipYRef = null
    /\ learnedCoachHipRef = null
    /\ learnedCoachKneeRef = null
    /\ goodBottomHip = <<>>
    /\ goodBottomKnee = <<>>
    /\ frame = NoFrame
    /\ sinceChange = 0
    /\ changeGap = null
    /\ cuesThisCycle = {}
    /\ dupCue = FALSE
    /\ pc = "initPose"
    /\ raf = FALSE
    /\ enabled = FALSE
    /\ useFront = TRUE
    /\ session = 1
    /\ stale = <<>>
    /\ staleTicks = 0
    /\ calibrated = FALSE
    /\ sm = NewSmoother
    /\ smCall = NoSmCall
    /\ smConst = [j \in SmJoints |-> [state |-> "none", p |-> NoPoint]]
    /\ depthCall = NoDepthCall
    /\ landmarker = FALSE
    /\ initCalls = <<>>
    /\ created = 0
    /\ scaleCall = NoScaleCall
    /\ tts = NewTTS
    /\ cam = NewCam
    /\ scen = NoScen

\* ------------------------------------------------------------------------
\* SpecFSM: any sequence of stepFSM calls from createFSM()
\* ------------------------------------------------------------------------
HipYSet == {0, 5, 10, 20, 45}

\* the cycle observation: a cycle starts with the call that enters descent
CycleOKAfter(ctx, next, depthOkay) ==
    IF ctx.state # "descent" /\ next.state = "descent" THEN depthOkay
    ELSE cycleOK \/ depthOkay

Step(hipY, depthOkay) ==
    /\ fsm.reps < MaxReps
    /\ fsm' = stepFSM(fsm, hipY, depthOkay)
    /\ call' = [hipY |-> hipY, depthOkay |-> depthOkay, from |-> fsm.state]
    /\ cycleOK' = CycleOKAfter(fsm, fsm', depthOkay)
    /\ UNCHANGED <<gateVars, rulesVars, loopVars, obsVars, sessVars, aloneVars, hudVars>>

NextFSM == \E hipY \in HipYSet, depthOkay \in BOOLEAN : Step(hipY, depthOkay)

SpecFSM == Init /\ [][NextFSM]_vars

\* ------------------------------------------------------------------------
\* SpecGate: any sequence of push / reset on a TemporalGate(max, need)
\* ------------------------------------------------------------------------
NewGate(max, need) ==
    /\ ~gate.made
    /\ gate' = [made |-> TRUE, max |-> max, need |-> need, buf |-> <<>>]
    /\ pushed' = <<>>
    /\ ret' = FALSE
    /\ UNCHANGED <<fsmVars, rulesVars, loopVars, obsVars, sessVars, aloneVars, hudVars>>

Push(v) ==
    /\ gate.made
    /\ Len(pushed) < MaxPushes
    /\ LET b == GateBufPush(gate.buf, gate.max, v)
       IN  /\ gate' = [gate EXCEPT !.buf = b]
           /\ ret' = GateResult(b, gate.need)
    /\ pushed' = Append(pushed, v)
    /\ UNCHANGED <<fsmVars, rulesVars, loopVars, obsVars, sessVars, aloneVars, hudVars>>

Reset ==
    /\ gate.made
    /\ gate' = [gate EXCEPT !.buf = <<>>]
    /\ pushed' = <<>>
    /\ ret' = FALSE
    /\ UNCHANGED <<fsmVars, rulesVars, loopVars, obsVars, sessVars, aloneVars, hudVars>>

NextGate ==
    \/ \E max \in 0..MaxGateMax, need \in 0..(MaxGateMax + 1) : NewGate(max, need)
    \/ \E v \in BOOLEAN : Push(v)
    \/ Reset

SpecGate == Init /\ [][NextGate]_vars

\* ------------------------------------------------------------------------
\* SpecRules: checkRulesAtBottom on any arguments
\* ------------------------------------------------------------------------
RuleDegs == {null} \cup {d * 100 : d \in 0..MaxRuleDeg}
RuleThresholds == {null, 1600, 3500}

Evaluate(opts) ==
    /\ rulesIn' = opts
    /\ rulesOut' = checkRulesAtBottom(opts)
    /\ UNCHANGED <<fsmVars, gateVars, loopVars, obsVars, sessVars, aloneVars, hudVars>>

NextRules ==
    \E v \in {"delta", "abs"}, d \in BOOLEAN, t \in RuleDegs, th \in RuleThresholds :
        Evaluate([variant |-> v, depthAchieved |-> d,
                  trunkDeltaDeg |-> t, trunkDeltaThreshold |-> th])

SpecRules == Init /\ [][NextRules]_vars

\* ------------------------------------------------------------------------
\* The frame loop of one CameraCanvas session
\* ------------------------------------------------------------------------
\* --- start(): the awaits before the loop ---
\* await initPose() resolves; the stream left in currentStream is stopped
StartInitPose ==
    /\ pc = "initPose"
    /\ pc' = "getUserMedia"
    /\ UNCHANGED <<fsmVars, gateVars, rulesVars, loopVars, obsVars,
                   raf, enabled, useFront, session, stale, staleTicks,
                   aloneVars, hudVars>>

\* no navigator.mediaDevices (setCamError, return), or getUserMedia rejects
\* twice (start() rejects into console.error): no loop is ever scheduled
StartNoCamera ==
    /\ pc = "getUserMedia"
    /\ pc' = "failed"
    /\ UNCHANGED <<fsmVars, gateVars, rulesVars, loopVars, obsVars,
                   raf, enabled, useFront, session, stale, staleTicks,
                   aloneVars, hudVars>>

\* getUserMedia resolves: currentStream and v.srcObject are set
StartCamera ==
    /\ pc = "getUserMedia"
    /\ pc' = "play"
    /\ UNCHANGED <<fsmVars, gateVars, rulesVars, loopVars, obsVars,
                   raf, enabled, useFront, session, stale, staleTicks,
                   aloneVars, hudVars>>

\* await v.play() resolves: lastTransitionAtRef.current = performance.now()
\* and the first requestAnimationFrame(loop)
StartPlay ==
    /\ pc = "play"
    /\ pc' = "loop"
    /\ raf' = TRUE
    /\ sinceTransition' = 0
    /\ sinceChange' = 0
    /\ UNCHANGED <<fsmVars, gateVars, rulesVars, variant, smPrev, kneeSmoothed,
                   trunkSmoothed, trunkBaseBuf, calibDone, trunkBaselineRef,
                   repGate, coachGate, coachConsec, spokeCueTypeThisRep,
                   prevDepthFSMRef, prevVelRef, lastCue, hkVars,
                   frame, changeGap, cuesThisCycle, dupCue,
                   enabled, useFront, session, stale, staleTicks,
                   aloneVars, hudVars>>

Start == StartInitPose \/ StartNoCamera \/ StartCamera \/ StartPlay

\* a tick on which the detector is not ready or reports no pose
LoopNoPose_NoReschedule(dt) ==
    /\ pc = "loop" /\ raf
    /\ raf' = FALSE
    /\ UNCHANGED compVars
    /\ fsm.reps < MaxReps
    /\ sinceTransition' = Sat(variant, sinceTransition + dt)
    /\ sinceChange' = Sat(variant, sinceChange + dt)
    /\ frame' = [NoFrame EXCEPT !.kind = "nopose"]
    /\ dupCue' = FALSE
    /\ UNCHANGED <<fsmVars, gateVars, rulesVars, variant, smPrev, kneeSmoothed,
                   trunkSmoothed, trunkBaseBuf, calibDone, trunkBaselineRef,
                   repGate, coachGate, coachConsec, spokeCueTypeThisRep,
                   prevDepthFSMRef, prevVelRef, lastCue, hkVars,
                   changeGap, cuesThisCycle, aloneVars, hudVars>>
LoopNoPose(dt) ==
    /\ pc = "loop" /\ raf
    /\ raf' = TRUE
    /\ UNCHANGED compVars
    /\ fsm.reps < MaxReps
    /\ sinceTransition' = Sat(variant, sinceTransition + dt)
    /\ sinceChange' = Sat(variant, sinceChange + dt)
    /\ frame' = [NoFrame EXCEPT !.kind = "nopose"]
    /\ dupCue' = FALSE
    /\ UNCHANGED <<fsmVars, gateVars, rulesVars, variant, smPrev, kneeSmoothed,
                   trunkSmoothed, trunkBaseBuf, calibDone, trunkBaselineRef,
                   repGate, coachGate, coachConsec, spokeCueTypeThisRep,
                   prevDepthFSMRef, prevVelRef, lastCue, hkVars,
                   changeGap, cuesThisCycle, aloneVars, hudVars>>

\* --- calibration: what the tick leaves in the buffers and baselines ---
\* if (!calibDone && kneeNow >= 170 && trunkNow <= 12 && profileOK)
\* if (!haveTop && uprightKnees && uprightTrunk && still && profileOK)
CalibAdmit_Readmit(done, profileOK, kneeNow, trunkNow, window) ==
    /\ kneeNow >= UprightKneeDeg * 100
    /\ trunkNow <= UprightTrunkDeg * 100
    /\ variant = "hipknee" => Still(window)
    /\ profileOK
CalibAdmit(done, profileOK, kneeNow, trunkNow, window) ==
    /\ ~done
    /\ kneeNow >= UprightKneeDeg * 100
    /\ trunkNow <= UprightTrunkDeg * 100
    /\ variant = "hipknee" => Still(window)
    /\ profileOK

Calibrate(profileOK, ankVis, kneeNow, trunkNow, body) ==
    LET hk == variant = "hipknee"
        \* the window is read by the calibration guard only: once haveTop
        \* is set its contents reach nothing and are not followed
        window1 == IF calibDone THEN hipYWindow
                   ELSE WindowPush(hipYWindow, body.hipY)
        admit == CalibAdmit(calibDone, profileOK, kneeNow, trunkNow, window1)
        topBuf1 == IF admit THEN Append(topYBuf, body.hipY) ELSE topYBuf
        scaleBuf1 == IF admit THEN Append(scaleBuf, ScaleCandidate(ankVis, body))
                     ELSE scaleBuf
        buf1 == IF admit THEN Append(trunkBaseBuf, trunkNow) ELSE trunkBaseBuf
        finish == admit /\ Len(buf1) >= CALIB_FRAMES(variant)
    IN  [hipYWindow |-> window1,
         topYBuf |-> topBuf1,
         scaleBuf |-> scaleBuf1,
         trunkBaseBuf |-> buf1,
         calibDone |-> calibDone \/ finish,
         finished |-> finish,
         trunkBaseline |-> IF finish THEN median(buf1) ELSE trunkBaselineRef,
         topY |-> IF finish THEN median(topBuf1) ELSE topY,
         scale |-> IF finish THEN median(scaleBuf1) ELSE scale]

\* if (!calibDone) / if (!haveTop || !topY || !scale): the early return
Uncalibrated_HipOnly(cal) ==
    /\ variant = "hipknee"
    /\ (~cal.calibDone \/ cal.topY \in {null, 0} \/ cal.scale \in {null, 0})
Uncalibrated(cal) ==
    \/ ~cal.calibDone
    \/ /\ variant = "hipknee"
       /\ (cal.topY \in {null, 0} \/ cal.scale \in {null, 0})

\* --- depth metrics of a calibrated tick ---
Depths(kneeNow, nowHipY, cal) ==
    LET hk == variant = "hipknee"
        depthHip == IF hk THEN clamp01(nowHipY - cal.topY, cal.scale) ELSE 0
        depthKnee == clamp01(18000 - kneeNow,
                             18000 - KneeDepthTarget(variant) * 100)
    IN  [hip |-> depthHip,
         knee |-> depthKnee,
         fsm |-> IF hk THEN Max(depthHip, depthKnee) ELSE depthKnee]

\* repOKNow and coachOKNow
RepOKNow(kneeNow, depthHip) ==
    \/ kneeNow <= REP_KNEE_DEG(variant) * 100
    \/ variant = "hipknee" /\ depthHip >= REP_HIP_DEPTH
CoachOKNow_Loose(kneeNow, depthHip) == kneeNow <= 8000
CoachOKNow(kneeNow, depthHip) ==
    LET coachKneeTarget == IF learnedCoachKneeRef # null THEN learnedCoachKneeRef
                           ELSE COACH_KNEE_DEG(variant) * 100
        coachHipTarget == IF learnedCoachHipRef # null THEN learnedCoachHipRef
                          ELSE COACH_HIP_DEPTH
    IN  \/ kneeNow <= coachKneeTarget
        \/ variant = "hipknee" /\ depthHip >= coachHipTarget

\* const depthAchieved = coachOK && (coachConsec >= COACH_DWELL_FRAMES)
DepthAchieved_NoDwell(coachOK, consec, dwell) == coachOK
DepthAchieved(coachOK, consec, dwell) == coachOK /\ consec >= dwell

\* a tick with a pose: raw visibilities, the knee and trunk angles measured
\* on the smoothed skeleton, and the heights of the body centres; the gates
\* have the given window and threshold, the dwell is the given number of
\* frames, and a hold at coaching depth is followed for hold frames
LoopBody(raw, knee, trunk, body, dt, window, need, dwell, hold) ==
    \E kps \in {SmootherApply(smPrev, raw)},
       kneeNow \in {ema(kneeSmoothed, knee)},
       trunkNow \in {ema(trunkSmoothed, trunk)} :
    \E profileOK \in {ProfileOK(kps)} :
    \E cal \in {Calibrate(profileOK, AnkVis(kps), kneeNow, trunkNow, body)} :
    /\ pc = "loop" /\ raf
    /\ raf' = TRUE
    /\ UNCHANGED compVars
    /\ fsm.reps < MaxReps
    /\ smPrev' = [has |-> TRUE, v |-> kps]
    /\ kneeSmoothed' = kneeNow
    /\ trunkSmoothed' = trunkNow
    /\ trunkBaseBuf' = cal.trunkBaseBuf
    /\ calibDone' = cal.calibDone
    /\ trunkBaselineRef' = cal.trunkBaseline
    /\ IF variant = "hipknee"
       THEN /\ lastHipYRef' = body.hipY
            /\ hipYWindow' = cal.hipYWindow
            /\ topYBuf' = cal.topYBuf
            /\ scaleBuf' = cal.scaleBuf
            /\ topY' = cal.topY
            /\ scale' = cal.scale
       ELSE UNCHANGED <<lastHipYRef, hipYWindow, topYBuf, scaleBuf, topY, scale>>
    /\ UNCHANGED <<gateVars, rulesVars, variant, aloneVars>>
    /\ calibrated' = (calibrated \/ cal.finished)
    /\ IF Uncalibrated(cal)
       THEN \* "Stand tall to calibrate": reschedule and return
            /\ sinceTransition' = Sat(variant, sinceTransition + dt)
            /\ sinceChange' = Sat(variant, sinceChange + dt)
            /\ frame' = [NoFrame EXCEPT !.kind = "uncal",
                            !.knee = knee, !.trunk = trunk,
                            !.raw = raw, !.profileOK = profileOK]
            /\ UNCHANGED <<fsmVars, repGate, coachGate, coachConsec,
                           spokeCueTypeThisRep, prevDepthFSMRef, prevVelRef,
                           lastCue, changeGap, cuesThisCycle,
                           learnedCoachHipRef, learnedCoachKneeRef,
                           goodBottomHip, goodBottomKnee>>
            /\ dupCue' = FALSE
       ELSE \E depth \in {Depths(kneeNow, body.hipY, cal)} :
            \* --- velocity, turnaround ---
            \E vel \in {depth.fsm - (IF prevDepthFSMRef = null THEN depth.fsm
                                     ELSE prevDepthFSMRef)} :
            \E bottomTurn \in {(IF prevVelRef = null THEN vel ELSE prevVelRef) > TurnPrevVel
                               /\ vel <= TurnVel} :
            \* --- gates ---
            \E rg \in {GateBufPush(repGate, window, RepOKNow(kneeNow, depth.hip))},
               coachOKNow \in {CoachOKNow(kneeNow, depth.hip)} :
            \E cg \in {GateBufPush(coachGate, window, coachOKNow)},
               repOK \in {GateResult(rg, need)} :
            \* --- throttled FSM step ---
            \E age \in {Sat(variant, sinceTransition + dt)} :
            \E fsm1 \in {ThrottledStep(fsm, CanTransition(variant, age), depth.fsm, repOK)} :
            LET coachOK == GateResult(cg, need)
                changed == fsm1.state # fsm.state
                justHitBottom == fsm.state # "bottom" /\ fsm1.state = "bottom"
                \* --- learned coaching targets (hip+knee) ---
                learn == variant = "hipknee" /\ justHitBottom /\ repOK
                goodHip1 == IF learn THEN Append(goodBottomHip, depth.hip)
                            ELSE goodBottomHip
                goodKnee1 == IF learn THEN Append(goodBottomKnee, kneeNow)
                             ELSE goodBottomKnee
                assign == learn /\ Len(goodHip1) >= LearnAfter
                                /\ learnedCoachHipRef = null
                \* --- reset on a new rep ---
                newRep == NewRep(fsm.state, fsm1.state)
                consec2 == IF newRep THEN 0
                           ELSE IF coachOKNow THEN coachConsec + 1 ELSE 0
                spoke1 == IF newRep THEN "null" ELSE spokeCueTypeThisRep
                \* --- cues ---
                trunkBase == IF cal.trunkBaseline = null THEN 0 ELSE cal.trunkBaseline
                trunkDelta == Max(0, trunkNow - trunkBase)
                shouldEval == ShouldEval(profileOK, justHitBottom, bottomTurn)
                depthAchieved == DepthAchieved(coachOK, consec2, dwell)
                cues == checkRulesAtBottom(
                            [variant |-> "delta",
                             depthAchieved |-> depthAchieved,
                             trunkDeltaDeg |-> trunkDelta,
                             trunkDeltaThreshold |-> TrunkDeltaThresholdDeg * 100])
                cycle1 == IF newRep THEN {} ELSE cuesThisCycle
            IN
            \E first \in {IF shouldEval THEN FindFirst(cues, spoke1) ELSE <<>>} :
            /\ coachOKNow => coachConsec < hold
            /\ prevDepthFSMRef' = depth.fsm
            /\ prevVelRef' = vel
            /\ repGate' = IF newRep THEN <<>> ELSE rg
            /\ coachGate' = IF newRep THEN <<>> ELSE cg
            /\ coachConsec' = consec2
            /\ fsm' = fsm1
            /\ call' = call
            /\ cycleOK' = IF CanTransition(variant, age)
                          THEN CycleOKAfter(fsm, fsm1, repOK)
                          ELSE cycleOK
            /\ sinceTransition' = IF changed THEN 0 ELSE age
            /\ sinceChange' = IF changed THEN 0 ELSE Sat(variant, sinceChange + dt)
            /\ changeGap' = IF changed THEN Sat(variant, sinceChange + dt) ELSE changeGap
            /\ goodBottomHip' = goodHip1
            /\ goodBottomKnee' = goodKnee1
            /\ learnedCoachHipRef' =
                  IF assign
                  THEN Max(LearnHipLo, Min(LearnHipHi, median(goodHip1) - LearnHipOff))
                  ELSE learnedCoachHipRef
            /\ learnedCoachKneeRef' =
                  IF assign
                  THEN Max(LearnKneeLo * 100, Min(LearnKneeHi * 100, median(goodKnee1)))
                  ELSE learnedCoachKneeRef
            /\ spokeCueTypeThisRep' = IF first # <<>> THEN first[1] ELSE spoke1
            /\ lastCue' = IF first # <<>> THEN first[1] ELSE lastCue
            /\ cuesThisCycle' = cycle1 \cup {first[i] : i \in 1..Len(first)}
            /\ dupCue' = (\E i \in 1..Len(first) : first[i] \in cycle1)
            /\ frame' = [kind |-> "full", knee |-> knee, trunk |-> trunk,
                         shouldEval |-> shouldEval, emitted |-> first,
                         depthAchieved |-> shouldEval /\ depthAchieved,
                         raw |-> raw, profileOK |-> profileOK]

\* the tick with the gates as the exploration follows them
LoopFrame(raw, knee, trunk, body, dt) ==
    /\ LoopBody(raw, knee, trunk, body, dt, GATE_WINDOW(variant),
                GATE_NEED(variant), COACH_DWELL_FRAMES(variant), MaxConsec)
    /\ UNCHANGED scen

\* ------------------------------------------------------------------------
\* What the detector reports
\* ------------------------------------------------------------------------
AllHigh == [j \in Joints |-> 90]
AllMid == [j \in Joints |-> 40]
VisPatterns == {AllHigh, AllMid}

\* smoothed angles visited (0.01 degree)
KneeGrid(v) == IF v = "knee" THEN {18000, 12000, 8000, 6400, 5800}
               ELSE {18000, 12000, 8000, 6800, 4800}
TrunkGrid == {500, 2500}

\* the raw angles in 0..top whose moving average lands on the grid
AngleInputs(prev, grid, top) ==
    IF prev = null THEN grid
    ELSE {r \in {(100 * g - (100 - EmaAlphaPct) * prev + 17) \div EmaAlphaPct : g \in grid} :
            r >= 0 /\ r <= top /\ ema(prev, r) \in grid}

\* heights of the body centres in the image (y grows downwards): an upright
\* subject, whose hip centre sinks from 0.5 as the knee bends
BodyAt(sink) == [hipY |-> 5000 + sink, kneeY |-> 7000, shY |-> 2000, anY |-> 9000]
HipSink(kneeNow) ==
    IF kneeNow > 12000 THEN 0
    ELSE IF kneeNow > 8000 THEN 100
    ELSE IF kneeNow > 6800 THEN 230
    ELSE IF kneeNow > 4800 THEN 250
    ELSE 300
\* the subject holds the hip still until the session is calibrated; the
\* knee-only component never reads the heights
Bodies(kneeNow) ==
    IF variant = "hipknee" /\ calibDone
    THEN {BodyAt(HipSink(kneeNow))}
    ELSE {BodyAt(0)}

\* time between two ticks
DtFast(v) == MIN_TRANSITION_MS(v) \div 2
DtSlow(v) == MIN_TRANSITION_MS(v) + 10

\* --- SpecTiming: every joint visible, upright trunk, both frame intervals ---
TimingNoPose == \E dt \in {DtFast(variant), DtSlow(variant)} : LoopNoPose(dt)
TimingFrame ==
    \E dt \in {DtFast(variant), DtSlow(variant)} :
        \E knee \in AngleInputs(kneeSmoothed, KneeGrid(variant), 18000),
           trunk \in AngleInputs(trunkSmoothed, {500}, 9000) :
              \E body \in Bodies(ema(kneeSmoothed, knee)) :
                  LoopFrame(AllHigh, knee, trunk, body, dt)

NextTiming == Start \/ TimingNoPose \/ TimingFrame

SpecTiming == Init /\ [][NextTiming]_vars

\* --- SpecEval: frames at both intervals and both visibilities, upright trunk ---
EvalFrame ==
    \E dt \in {DtFast(variant), DtSlow(variant)}, raw \in VisPatterns :
        \E knee \in AngleInputs(kneeSmoothed, KneeGrid(variant), 18000),
           trunk \in AngleInputs(trunkSmoothed, {500}, 9000) :
              \E body \in Bodies(ema(kneeSmoothed, knee)) :
                  LoopFrame(raw, knee, trunk, body, dt)

NextEval == Start \/ EvalFrame

SpecEval == Init /\ [][NextEval]_vars

\* --- SpecCues: slow frames (never throttled), every visibility and trunk ---
CuesNoPose == LoopNoPose(DtSlow(variant))
CuesFrame ==
    \E raw \in VisPatterns :
        \E knee \in AngleInputs(kneeSmoothed, KneeGrid(variant), 18000),
           trunk \in AngleInputs(trunkSmoothed, TrunkGrid, 9000) :
              \E body \in Bodies(ema(kneeSmoothed, knee)) :
                  LoopFrame(raw, knee, trunk, body, DtSlow(variant))

NextCues == Start \/ CuesNoPose \/ CuesFrame

SpecCues == Init /\ [][NextCues]_vars

\* --- SpecCalib: the calibration phase. The subject stands at one of two ---
\* --- heights and may jolt the hip; bent knees, a leaning trunk and poor  ---
\* --- visibility occur; the frames are slow                               ---
HipTops == {0, 5000}
\* a jolt of 0.0041: alone among 20 heights it has a sample deviation of
\* 0.00092 and a population deviation of 0.00089
Jolt == 41
CalibBody(top, sink) ==
    [hipY |-> top + sink, kneeY |-> top + 2000, shY |-> top - 3000, anY |-> top + 4000]
\* the height the subject stands at, read off the heights seen
HipRest(window) == CHOOSE t \in HipTops : \E i \in 1..Len(window) : window[i] = t
\* the heights that stay in the window when the next one is pushed
WindowKept(window) ==
    IF Len(window) < HipWindow THEN window ELSE Tail(window)
\* before calibration the hip rests, with at most one jolt among the heights
\* of a window; afterwards it sinks from the reference as the knee bends
CalibBodies(kneeNow) ==
    IF variant = "knee" THEN {BodyAt(0)}
    ELSE IF calibDone THEN {CalibBody(topY, HipSink(kneeNow))}
    ELSE IF hipYWindow = <<>> THEN {CalibBody(t, 0) : t \in HipTops}
    ELSE LET rest == HipRest(hipYWindow)
             kept == WindowKept(hipYWindow)
             jolted == \E i \in 1..Len(kept) : kept[i] # rest
         IN  {CalibBody(rest, 0)} \cup
             (IF jolted THEN {} ELSE {CalibBody(rest, Jolt)})

KneeGridCalib == {18000, 12000}
CalibNoPose == LoopNoPose(DtSlow(variant))
CalibFrame ==
    \E raw \in VisPatterns :
        \E knee \in AngleInputs(kneeSmoothed, KneeGridCalib, 18000),
           trunk \in AngleInputs(trunkSmoothed, TrunkGrid, 9000) :
              \E body \in CalibBodies(ema(kneeSmoothed, knee)) :
                  LoopFrame(raw, knee, trunk, body, DtSlow(variant))

NextCalib == Start \/ CalibNoPose \/ CalibFrame

SpecCalib == Init /\ [][NextCalib]_vars

\* ------------------------------------------------------------------------
\* The life of the effect: useEffect(..., [enabled, speak, useFront])
\* ------------------------------------------------------------------------
Pending == {"initPose", "getUserMedia", "play"}

\* the cleanup: cancelAnimationFrame(raf) cancels the callback the loop has
\* pending, if start() got as far as the loop; a start() still awaiting is
\* not told and goes on (its place is kept in stale)
Cleanup ==
    /\ pc # "unmounted"
    /\ pc \in Pending => Len(stale) < MaxStale
    /\ raf' = FALSE
    /\ stale' = IF pc \in Pending THEN Append(stale, pc) ELSE stale
    /\ UNCHANGED staleTicks

\* the effect body: a new closure (smoother, moving averages, FSM, gates,
\* dwell counter, cue memory, calibration buffers; goodBottomHip / goodBottomKnee
\* of the render it closes over) and start(); the refs and the React state
\* stay as they are
EffectRun ==
    /\ session < MaxSessions
    /\ session' = session + 1
    /\ pc' = "initPose"
    /\ smPrev' = NoPrev
    /\ kneeSmoothed' = null
    /\ trunkSmoothed' = null
    /\ fsm' = createFSM
    /\ repGate' = <<>>
    /\ coachGate' = <<>>
    /\ coachConsec' = 0
    /\ spokeCueTypeThisRep' = "null"
    /\ trunkBaseBuf' = <<>>
    /\ calibDone' = FALSE
    /\ topYBuf' = <<>>
    /\ scaleBuf' = <<>>
    /\ hipYWindow' = <<>>
    /\ topY' = null
    /\ scale' = null
    /\ goodBottomHip' = <<>>
    /\ goodBottomKnee' = <<>>
    /\ UNCHANGED <<variant, trunkBaselineRef, prevDepthFSMRef, prevVelRef,
                   sinceTransition, lastCue, lastHipYRef, learnedCoachHipRef,
                   learnedCoachKneeRef>>
    /\ call' = NoCall
    /\ cycleOK' = FALSE
    /\ frame' = NoFrame
    /\ sinceChange' = 0
    /\ changeGap' = null
    /\ cuesThisCycle' = {}
    /\ dupCue' = FALSE
    /\ UNCHANGED <<gateVars, rulesVars, aloneVars, hudVars>>

\* the camera button: setUseFront(v => !v)
SwitchCamera ==
    /\ useFront' = ~useFront
    /\ UNCHANGED enabled
    /\ Cleanup
    /\ EffectRun

\* the audio button: enable() sets enabled, which also renews speak
EnableAudio ==
    /\ ~enabled
    /\ enabled' = TRUE
    /\ UNCHANGED useFront
    /\ Cleanup
    /\ EffectRun

\* the component is unmounted: the cleanup alone
Unmount ==
    /\ Cleanup
    /\ pc' = "unmounted"
    /\ UNCHANGED <<fsmVars, gateVars, rulesVars, loopVars, obsVars,
                   enabled, useFront, session, aloneVars, hudVars>>

\* start() of a torn-down session goes on through its awaits; on reaching
\* the loop it writes lastTransitionAtRef and schedules its own loop
StaleStart(i) ==
    /\ stale[i] \in Pending
    /\ \E to \in (CASE stale[i] = "initPose" -> {"getUserMedia"}
                   [] stale[i] = "getUserMedia" -> {"play", "failed"}
                   [] stale[i] = "play" -> {"loop"}) :
          /\ stale' = [stale EXCEPT ![i] = to]
          /\ sinceTransition' = IF to = "loop" THEN 0 ELSE sinceTransition
    /\ UNCHANGED <<fsmVars, gateVars, rulesVars, variant, smPrev, kneeSmoothed,
                   trunkSmoothed, trunkBaseBuf, calibDone, trunkBaselineRef,
                   repGate, coachGate, coachConsec, spokeCueTypeThisRep,
                   prevDepthFSMRef, prevVelRef, lastCue, hkVars, obsVars,
                   pc, raf, enabled, useFront, session, staleTicks,
                   aloneVars, hudVars>>

\* a loop iteration of a torn-down session, in its own closure: with fewer
\* than CALIB_FRAMES iterations behind it the session is calibrating, and
\* the one ref such an iteration writes is lastHipYRef (hip+knee, on a pose)
StaleTick(i) ==
    /\ stale[i] = "loop"
    /\ staleTicks < MaxStaleTicks
    /\ staleTicks' = staleTicks + 1
    /\ lastHipYRef' \in (IF variant = "hipknee" THEN {lastHipYRef, 5000}
                         ELSE {lastHipYRef})
    /\ UNCHANGED <<fsmVars, gateVars, rulesVars, variant, smPrev, kneeSmoothed,
                   trunkSmoothed, trunkBaseBuf, calibDone, trunkBaselineRef,
                   repGate, coachGate, coachConsec, spokeCueTypeThisRep,
                   prevDepthFSMRef, prevVelRef, sinceTransition, lastCue,
                   topYBuf, scaleBuf, hipYWindow, topY, scale,
                   learnedCoachHipRef, learnedCoachKneeRef, goodBottomHip,
                   goodBottomKnee, obsVars,
                   pc, raf, enabled, useFront, session, stale,
                   aloneVars, hudVars>>

\* --- SpecSession: the component from its mount on; every joint visible, ---
\* --- upright trunk, slow frames, shallow knee bends                     ---
KneeGridShort == {18000, 12000, 8000}
SessionNoPose == LoopNoPose(DtSlow(variant))
SessionFrame ==
    \E knee \in AngleInputs(kneeSmoothed, KneeGridShort, 18000),
       trunk \in AngleInputs(trunkSmoothed, {500}, 9000) :
          \E body \in Bodies(ema(kneeSmoothed, knee)) :
              LoopFrame(AllHigh, knee, trunk, body, DtSlow(variant))

NextSession ==
    \/ Start
    \/ SessionNoPose
    \/ SessionFrame
    \/ SwitchCamera
    \/ EnableAudio
    \/ Unmount
    \/ \E i \in 1..Len(stale) : StaleStart(i)
    \/ \E i \in 1..Len(stale) : StaleTick(i)

SpecSession == Init /\ [][NextSession]_vars

\* ========================================================================
\* Claims
\* ========================================================================
Recent(seq, n) == SubSeq(seq, Len(seq) - n + 1, Len(seq))

\* C1: over any sequence of stepFSM calls from createFSM(), reps never
\* decreases; a call adds exactly 1 when it moves ascent -> lockout with the
\* depth flag (stored flag OR this call's depthOkay) true, and every other
\* call leaves reps unchanged.
C1_RepCount ==
    [][LET flag == fsm.depthReached \/ call'.depthOkay
           lock == fsm.state = "ascent" /\ fsm'.state = "lockout"
       IN  /\ fsm'.reps >= fsm.reps
           /\ (fsm'.reps = fsm.reps + 1) <=> (lock /\ flag)
           /\ (fsm'.reps # fsm.reps + 1) => (fsm'.reps = fsm.reps)]_vars

C1_Witness == fsm.reps = 1 /\ fsm.state = "lockout" /\ call.from = "ascent"

\* C2: in the frame loop a rep is counted only if the gated depth boolean
\* handed to stepFSM was true on a stepped frame of the same cycle (from the
\* step that entered descent onwards).
C2_DepthInCycle == [][fsm'.reps > fsm.reps => cycleOK']_vars

\* C3: between two consecutive lockout -> descent transitions (and before
\* the first) no cue kind is emitted twice.
C3_NoRepeat == ~dupCue

\* C4: checkRulesAtBottom returns exactly the depth cue when depthAchieved
\* is false, otherwise exactly the trunk cue when the trunk value exceeds the
\* threshold, otherwise nothing; never both.
C4_OneCue ==
    rulesIn.variant # "none" =>
        LET thr == IF rulesIn.trunkDeltaThreshold = null
                   THEN DefaultThreshold(rulesIn.variant)
                   ELSE rulesIn.trunkDeltaThreshold
        IN  rulesOut =
                IF ~rulesIn.depthAchieved THEN <<"depth">>
                ELSE IF rulesIn.trunkDeltaDeg # null /\ rulesIn.trunkDeltaDeg > thr
                     THEN <<"trunk">>
                     ELSE <<>>

\* C5: a tick emits at most one cue and writes the per-rep cue memory and
\* lastCue with it; it emits none when the evaluation condition is false,
\* and without a cue the memory is only kept or cleared.
C5_OneCuePerFrame ==
    [][LET e == frame'.emitted
       IN  /\ Len(e) <= 1
           /\ ~frame'.shouldEval => e = <<>>
           /\ e # <<>> => spokeCueTypeThisRep' = e[1] /\ lastCue' = e[1]
           /\ e = <<>> => /\ spokeCueTypeThisRep' \in {spokeCueTypeThisRep, "null"}
                          /\ lastCue' = lastCue]_vars

C5_Witness == frame.shouldEval /\ frame.emitted = <<"trunk">>

\* C6: a push returns true iff at least need of the most recent
\* min(max, pushes since construction or reset) pushed values are true; the
\* window never holds more than max values; after a reset, pushes with
\* fewer than need true values all return false.
C6_Gate ==
    gate.made =>
        /\ Len(gate.buf) <= gate.max
        /\ pushed # <<>> =>
            /\ ret <=> (CountTrue(Recent(pushed, Min(gate.max, Len(pushed)))) >= gate.need)
            /\ CountTrue(pushed) < gate.need => ~ret

C6_Witness ==
    /\ gate.made /\ ret /\ gate.need >= 1
    /\ Len(pushed) > gate.max
    /\ CountTrue(pushed) > CountTrue(gate.buf)

\* C7: stepFSM changes state only along idle->descent (vy > 0.002),
\* descent->bottom (|vy| < 0.001 and depth reached), descent->ascent
\* (vy < -0.002), bottom->ascent (vy < -0.002), ascent->lockout
\* (|vy| < 0.001), lockout->descent (vy > 0.002); idle is never re-entered.
C7_Edges ==
    [][fsm'.state # fsm.state =>
        LET vy == vyOf(fsm, call'.hipY)
            reached == fsm.depthReached \/ call'.depthOkay
            still == vy > -VyStill /\ vy < VyStill
            from == fsm.state
            to == fsm'.state
        IN  /\ \/ from = "idle" /\ to = "descent" /\ vy > VyMove
               \/ from = "descent" /\ to = "bottom" /\ still /\ reached
               \/ from = "descent" /\ to = "ascent" /\ vy < -VyMove
               \/ from = "bottom" /\ to = "ascent" /\ vy < -VyMove
               \/ from = "ascent" /\ to = "lockout" /\ still
               \/ from = "lockout" /\ to = "descent" /\ vy > VyMove
            /\ to # "idle"]_vars

C7_Witness == fsm.state = "bottom" /\ call.from = "descent"

\* C8: two consecutive FSM state changes of a session, and the start of
\* the loop and the first change, are more than MIN_TRANSITION_MS apart.
C8_Throttle == changeGap = null \/ changeGap > MIN_TRANSITION_MS(variant)

C8_Witness == changeGap # null /\ fsm.state = "bottom" /\ sinceChange = 0

\* C9: a calibrated frame within MIN_TRANSITION_MS of the latest state
\* change (or of the start) leaves the FSM context unchanged, and still
\* updates the smoother, both moving averages, both gates, the dwell counter
\* and the turnaround detector's previous depth and velocity.
C9_ThrottledFrame ==
    [][(/\ frame'.kind = "full"
        /\ sinceChange' >= 1
        /\ sinceChange' <= MIN_TRANSITION_MS(variant)) =>
        LET hk == variant = "hipknee"
            kneeNow == kneeSmoothed'
            depthHip == IF hk THEN clamp01(lastHipYRef' - topY, scale) ELSE 0
            depth == Max(depthHip,
                         clamp01(18000 - kneeNow, 18000 - KneeDepthTarget(variant) * 100))
            kneeTarget == IF learnedCoachKneeRef # null THEN learnedCoachKneeRef
                          ELSE COACH_KNEE_DEG(variant) * 100
            hipTarget == IF learnedCoachHipRef # null THEN learnedCoachHipRef
                         ELSE COACH_HIP_DEPTH
            repNow == \/ kneeNow <= REP_KNEE_DEG(variant) * 100
                      \/ hk /\ depthHip >= REP_HIP_DEPTH
            coachNow == kneeNow <= kneeTarget \/ (hk /\ depthHip >= hipTarget)
        IN  /\ fsm' = fsm
            /\ smPrev'.has
            /\ kneeSmoothed' = ema(kneeSmoothed, frame'.knee)
            /\ trunkSmoothed' = ema(trunkSmoothed, frame'.trunk)
            /\ repGate' = GateBufPush(repGate, GATE_WINDOW(variant), repNow)
            /\ coachGate' = GateBufPush(coachGate, GATE_WINDOW(variant), coachNow)
            /\ coachConsec' = IF coachNow THEN coachConsec + 1 ELSE 0
            /\ prevDepthFSMRef' = depth
            /\ prevVelRef' = depth - (IF prevDepthFSMRef = null THEN depth
                                      ELSE prevDepthFSMRef)]_vars

C9_Witness ==
    /\ frame.kind = "full" /\ sinceChange >= 1 /\ sinceChange <= MIN_TRANSITION_MS(variant)
    /\ fsm.state = "descent"
    /\ fsm.lastHipY # prevDepthFSMRef
    /\ repGate # <<>>

\* C10: a frame whose profile check is false pushes neither gate, does not
\* step the FSM and evaluates no cue: gates, dwell counter, FSM context and
\* per-rep cue memory are as before the frame.
C10_ProfileSkip ==
    [][(frame'.kind \in {"uncal", "full"} /\ ~ProfileOK(smPrev'.v)) =>
        UNCHANGED <<repGate, coachGate, coachConsec, fsm, spokeCueTypeThisRep>>]_vars

\* the early-return condition as the state shows it after a frame
NotCalibrated(done, top, unit) ==
    \/ ~done
    \/ variant = "hipknee" /\ (top \in {null, 0} \/ unit \in {null, 0})

\* C11: a frame after which the session is not calibrated takes the early
\* return: gates, dwell counter, FSM context (as created: idle, 0 reps),
\* the turnaround detector's previous depth and velocity, the per-rep cue
\* memory and lastCue are as before, no cue is emitted, and the next tick is
\* scheduled, however many such frames came before.
C11_UncalibratedFrame ==
    [][(frame'.kind \in {"uncal", "full"} /\ NotCalibrated(calibDone', topY', scale')) =>
        /\ frame'.kind = "uncal"
        /\ UNCHANGED <<repGate, coachGate, coachConsec, fsm, prevDepthFSMRef,
                       prevVelRef, spokeCueTypeThisRep, lastCue>>
        /\ fsm' = createFSM
        /\ repGate' = <<>> /\ coachGate' = <<>> /\ coachConsec' = 0
        /\ frame'.emitted = <<>>
        /\ pc' = "loop" /\ raf']_vars

C11_Witness ==
    /\ frame.kind = "uncal" /\ ~calibDone
    /\ Len(trunkBaseBuf) >= 2
    /\ ~ProfileOK(smPrev.v)

\* C12: within a session calibration never goes back; once calibrated, the
\* trunk baseline, the reference hip height and the scale unit keep their
\* values and the calibration buffers get no further sample.
C12_CalibratedOnce ==
    [][(calibDone /\ session' = session) =>
        /\ calibDone'
        /\ trunkBaselineRef' = trunkBaselineRef
        /\ topY' = topY /\ scale' = scale
        /\ trunkBaseBuf' = trunkBaseBuf
        /\ topYBuf' = topYBuf /\ scaleBuf' = scaleBuf]_vars

C12_Witness ==
    /\ calibDone /\ frame.kind = "full" /\ Len(repGate) >= 2
    /\ kneeSmoothed >= UprightKneeDeg * 100
    /\ trunkSmoothed <= UprightTrunkDeg * 100
    /\ ProfileOK(smPrev.v)
    /\ Len(trunkBaseBuf) = CALIB_FRAMES(variant)

\* the median as the claim words it: the middle value of the sorted buffer,
\* or the mean of the two middle values for an even count
MiddleOf(buf) ==
    LET a == SortSeq(buf, LAMBDA x, y : x < y)
        n == Len(a)
    IN  IF n % 2 = 1 THEN a[(n + 1) \div 2]
        ELSE (a[n \div 2] + a[n \div 2 + 1]) \div 2

\* C13: in the hip+knee component the frame that admits sample number
\* CALIB_FRAMES sets each baseline to the median of its buffer and goes on
\* to the depth, gate and FSM evaluation, and so does every later frame
\* with a pose.
C13_CalibrationCompletes ==
    [][(variant = "hipknee" /\ frame'.kind \in {"uncal", "full"}
        /\ Len(topYBuf') = CALIB_FRAMES(variant)) =>
        /\ calibDone'
        /\ topY' = MiddleOf(topYBuf')
        /\ scale' = MiddleOf(scaleBuf')
        /\ trunkBaselineRef' = MiddleOf(trunkBaseBuf')
        /\ frame'.kind = "full"]_vars

\* sum of the squared differences over all ordered pairs of heights:
\* 2 n (n - 1) times the sample variance
PairSq(w) ==
    LET RECURSIVE Row(_, _)
        Row(i, j) == IF j = 0 THEN 0
                     ELSE (w[i] - w[j]) * (w[i] - w[j]) + Row(i, j - 1)
        RECURSIVE All(_)
        All(i) == IF i = 0 THEN 0 ELSE Row(i, Len(w)) + All(i - 1)
    IN  All(Len(w))
SampleDevBelow(w, lim) ==
    Len(w) < 2 \/ PairSq(w) < lim * lim * 2 * Len(w) * (Len(w) - 1)

\* C14: in the hip+knee component a frame appends to the calibration
\* buffers only if the session was not calibrated, the smoothed knee angle
\* is at least 170, the smoothed trunk angle at most 12, the profile check
\* true, and the sample standard deviation of the latest (at most 20) hip
\* heights below 0.0009; the three buffers have equal length, never above
\* CALIB_FRAMES.
C14_Admission ==
    [][variant = "hipknee" =>
        /\ Len(topYBuf') = Len(scaleBuf') /\ Len(topYBuf') = Len(trunkBaseBuf')
        /\ Len(topYBuf') <= CALIB_FRAMES(variant)
        /\ Len(hipYWindow') <= HipWindow
        /\ topYBuf' # topYBuf =>
              /\ ~calibDone
              /\ Len(topYBuf') = Len(topYBuf) + 1
              /\ kneeSmoothed' >= 17000
              /\ trunkSmoothed' <= 1200
              /\ ProfileOK(smPrev'.v)
              /\ SampleDevBelow(hipYWindow', 9)]_vars

C14_Witness ==
    /\ variant = "hipknee" /\ ~calibDone /\ frame.kind = "uncal"
    /\ Len(topYBuf) >= HipWindow
    /\ Len(hipYWindow) = HipWindow
    /\ hipYWindow[1] # hipYWindow[2]
    /\ kneeSmoothed >= 17000 /\ trunkSmoothed <= 1200 /\ ProfileOK(smPrev.v)

\* C15: a session's outputs depend on its own frames only. A session that
\* starts from nothing has no velocity on its first evaluated frame (the
\* frame that completes calibration): no turnaround, no cue evaluation, no
\* cue. The same holds for the session constructed by a camera switch.
C15_FreshSession ==
    [][(~calibDone /\ calibDone' /\ frame'.kind = "full") =>
        /\ prevVelRef' = 0
        /\ ~frame'.shouldEval
        /\ frame'.emitted = <<>>]_vars

\* frame loops with a callback pending: the current session's and those of
\* torn-down sessions
ActiveLoops ==
    (IF raf THEN 1 ELSE 0) + Cardinality({i \in 1..Len(stale) : stale[i] = "loop"})

\* C16: no loop iteration of a torn-down session runs, whenever the cleanup
\* came during its start(); at most one frame loop is active.
C16_NoLoopAfterTeardown == staleTicks = 0 /\ ActiveLoops <= 1

\* C17: enabling the coaching audio leaves the running session as it is:
\* FSM state, rep count and calibration are unchanged.
C17_AudioKeepsSession ==
    [][enabled' # enabled =>
        /\ fsm'.state = fsm.state
        /\ fsm'.reps = fsm.reps
        /\ calibDone' = calibDone]_vars

\* C18: a full frame clears both gates, the dwell counter and the per-rep
\* cue memory exactly when it takes the FSM from lockout to descent (a cue
\* the same frame emits is then remembered alone); every other full frame,
\* idle -> descent and ascent -> lockout included, pushes the gates and
\* keeps the memory unless it emits a cue.
C18_ResetOnNewRep ==
    [][frame'.kind = "full" =>
        LET newRep == fsm.state = "lockout" /\ fsm'.state = "descent"
            e == frame'.emitted
        IN  /\ newRep =>
                  /\ repGate' = <<>> /\ coachGate' = <<>>
                  /\ coachConsec' = 0
                  /\ spokeCueTypeThisRep' = (IF e # <<>> THEN e[1] ELSE "null")
            /\ ~newRep =>
                  /\ Len(repGate') = Min(Len(repGate) + 1, GATE_WINDOW(variant))
                  /\ Len(coachGate') = Min(Len(coachGate) + 1, GATE_WINDOW(variant))
                  /\ coachConsec' \in {0, coachConsec + 1}
                  /\ e = <<>> => spokeCueTypeThisRep' = spokeCueTypeThisRep]_vars

C18_Witness ==
    /\ frame.kind = "full" /\ fsm.state = "descent" /\ fsm.reps >= 1
    /\ repGate = <<>> /\ coachGate = <<>>
    /\ spokeCueTypeThisRep = "null" /\ lastCue # "null"

\* C19: checkRulesAtBottom is evaluated on a tick exactly when the tick is a
\* calibrated frame whose profile check is true and on which either the FSM
\* entered bottom or the turnaround detector fired (previous velocity above
\* 0.003, this frame's at most 0.0008), whatever the FSM state and whether
\* or not the frame was throttled.
C19_EvalCondition ==
    [][frame'.kind # "none" =>
        LET entered == fsm.state # "bottom" /\ fsm'.state = "bottom"
            turn == prevVelRef # null /\ prevVelRef > 30 /\ prevVelRef' <= 8
        IN  frame'.shouldEval <=>
              /\ frame'.kind = "full"
              /\ calibDone'
              /\ ProfileOK(smPrev'.v)
              /\ (entered \/ turn)]_vars

C19_Witness ==
    /\ frame.shouldEval /\ fsm.state = "descent"
    /\ sinceChange >= 1 /\ sinceChange <= MIN_TRANSITION_MS(variant)
    /\ frame.emitted # <<>>

\* C20: a tick without a pose (detector not ready, null or empty result)
\* leaves the smoother, both moving averages, the calibration buffers and
\* baselines, both gates, the dwell counter, the FSM context, the
\* turnaround memory and the cue memory as they were, emits no cue, and
\* schedules the next tick.
C20_NoPoseTick ==
    [][frame'.kind = "nopose" =>
        /\ UNCHANGED <<smPrev, kneeSmoothed, trunkSmoothed, trunkBaseBuf,
                       calibDone, trunkBaselineRef, repGate, coachGate,
                       coachConsec, fsm, prevDepthFSMRef, prevVelRef,
                       spokeCueTypeThisRep, lastCue, hkVars>>
        /\ frame'.emitted = <<>> /\ ~frame'.shouldEval
        /\ pc' = "loop" /\ raf']_vars

C20_Witness ==
    /\ frame.kind = "nopose" /\ calibDone /\ raf
    /\ fsm.state = "descent" /\ repGate # <<>>
    /\ prevVelRef # null /\ prevVelRef > 30

\* ------------------------------------------------------------------------
\* SpecSmooth: PoseSmoother.apply on any keypoints at increasing timestamps
\* ------------------------------------------------------------------------
\* apply calls followed
MaxApply == 3

\* what the detector gives for the first joint: a resting place, a small
\* step from it, a jump, the jump without a visibility, and the resting
\* place at low visibility
SmPoints1 == {[x |-> 5000, y |-> 5000, visibility |-> 90],
              [x |-> 5300, y |-> 5400, visibility |-> 90],
              [x |-> 5700, y |-> 7400, visibility |-> 90],
              [x |-> 5700, y |-> 7400, visibility |-> null],
              [x |-> 5000, y |-> 5000, visibility |-> 10]}
\* and for the second joint, always visible
SmPoints2 == {[x |-> 2000, y |-> 3000, visibility |-> 90],
              [x |-> 2000, y |-> 3600, visibility |-> 90]}
\* time between two calls, in units of 0.1 ms
SmDts == {167, 500}

\* per joint: has every call so far passed the same visible point?
ConstAfter(c, p) ==
    IF c.state = "none"
    THEN (IF Hidden(p) THEN [state |-> "varied", p |-> NoPoint]
          ELSE [state |-> "same", p |-> p])
    ELSE IF c.state = "same" /\ c.p = p THEN c
    ELSE [state |-> "varied", p |-> NoPoint]

ApplyCall(kps, dt) ==
    /\ smCall.n < MaxApply
    /\ \E r \in {apply(sm, kps, smCall.t + dt)} :
          /\ sm' = r.s
          /\ smCall' = [n |-> smCall.n + 1, t |-> smCall.t + dt, kps |-> kps,
                        after |-> r.kps, hadPrev |-> sm.hasPrev, prev |-> sm.prev,
                        fed |-> r.fed, out |-> r.out]
    /\ smConst' = [j \in SmJoints |-> ConstAfter(smConst[j], kps[j])]
    /\ UNCHANGED <<fsmVars, gateVars, rulesVars, loopVars, obsVars, sessVars,
                   depthCall, scaleCall, poseVars, tts, cam, hudVars>>

NextSmooth ==
    \E p1 \in SmPoints1, p2 \in SmPoints2, dt \in SmDts :
        ApplyCall([j \in SmJoints |-> IF j = 1 THEN p1 ELSE p2], dt)

SpecSmooth == Init /\ [][NextSmooth]_vars

\* C21: a joint below visThresh (a missing visibility counts as 0) leaves its
\* x and y filters as they were and comes out as the previous output for the
\* joint, or as the raw point when there is none; every other joint of the
\* call goes through its filters (which take the sample fed at the call's
\* timestamp) and keeps its raw visibility; the array passed is left as it was.
C21_LowVisibility ==
    [][smCall'.n = smCall.n + 1 =>
        /\ smCall'.after = smCall'.kps
        /\ \A j \in SmJoints :
            IF Hidden(smCall'.kps[j])
            THEN /\ sm'.fx[j] = sm.fx[j]
                 /\ sm'.fy[j] = sm.fy[j]
                 /\ ~smCall'.fed[j].on
                 /\ smCall'.out[j] = (IF sm.hasPrev THEN sm.prev[j]
                                      ELSE smCall'.kps[j])
            ELSE /\ smCall'.fed[j].on
                 /\ sm'.fx[j].init /\ sm'.fx[j].lastT = smCall'.t
                 /\ sm'.fx[j].lastX = smCall'.fed[j].x
                 /\ sm'.fy[j].init /\ sm'.fy[j].lastT = smCall'.t
                 /\ sm'.fy[j].lastX = smCall'.fed[j].y
                 /\ smCall'.out[j].visibility = smCall'.kps[j].visibility
                 /\ smCall'.out[j].x = OneEuroFilter(sm.fx[j], smCall'.fed[j].x, smCall'.t).out
                 /\ smCall'.out[j].y = OneEuroFilter(sm.fy[j], smCall'.fed[j].y, smCall'.t).out]_vars
\* a call on which the first joint, filtered before, is hidden and comes out
\* as its previous output while the second joint moves through its filters
C21_Witness ==
    /\ smCall.n >= 2
    /\ Hidden(smCall.kps[1]) /\ smCall.hadPrev
    /\ sm.fx[1].init /\ sm.fx[1].lastT < smCall.t
    /\ smCall.out[1] = smCall.prev[1]
    /\ smCall.out[1] # smCall.kps[1]
    /\ smCall.fed[2].on /\ smCall.kps[2] # smCall.prev[2]

\* C22: a visible raw point further than maxJump from the joint's previous
\* output is handed to the filters as the point of the segment from the
\* previous output towards it at distance maxJump (to the rounding of the
\* unit); a point within maxJump, or one without a previous output, is
\* handed over as it is; what is handed over is never further than maxJump
\* from the previous output.
C22_Despike ==
    \A j \in SmJoints :
        smCall.fed[j].on =>
            LET p == smCall.kps[j]
                q == smCall.prev[j]
                dx == p.x - q.x
                dy == p.y - q.y
                ex == smCall.fed[j].x - q.x
                ey == smCall.fed[j].y - q.y
            IN  IF smCall.hadPrev /\ dx * dx + dy * dy > MaxJump * MaxJump
                THEN /\ ex * ex + ey * ey <= MaxJump * MaxJump
                     /\ ex * ex + ey * ey >= (MaxJump - 2) * (MaxJump - 2)
                     /\ ex * dx >= 0 /\ ey * dy >= 0
                     /\ Abs(ex * dy - ey * dx) <= Abs(dx) + Abs(dy)
                ELSE /\ smCall.fed[j].x = p.x /\ smCall.fed[j].y = p.y
                     /\ smCall.hadPrev => ex * ex + ey * ey <= MaxJump * MaxJump
\* a jump of the first joint that was cut to maxJump
C22_Witness ==
    /\ smCall.fed[1].on /\ smCall.hadPrev
    /\ (smCall.kps[1].x - smCall.prev[1].x) * (smCall.kps[1].x - smCall.prev[1].x)
         + (smCall.kps[1].y - smCall.prev[1].y) * (smCall.kps[1].y - smCall.prev[1].y)
         > MaxJump * MaxJump
    /\ smCall.fed[1].x # smCall.kps[1].x

\* C23: a joint that was passed the same visible point on every call so far
\* comes out as that point (to the unit) on every one of them.
C23_FixedPoint ==
    \A j \in SmJoints :
        smConst[j].state = "same" =>
            /\ Abs(smCall.out[j].x - smConst[j].p.x) <= 1
            /\ Abs(smCall.out[j].y - smConst[j].p.y) <= 1
\* the third call in a row with the same point for the first joint, whose
\* low-pass filters are both running
C23_Witness ==
    /\ smCall.n >= 3
    /\ smConst[1].state = "same"
    /\ sm.fx[1].xLP.init /\ sm.fx[1].dxLP.init
    /\ smCall.out[1].x = smConst[1].p.x

\* C24: the first sample the filters of a joint receive comes out of apply as
\* the raw point (x, y and visibility) and initialises the filters to it.
C24_FirstSample ==
    [][smCall'.n = smCall.n + 1 =>
        \A j \in SmJoints :
            (~sm.fx[j].init /\ ~Hidden(smCall'.kps[j])) =>
                /\ smCall'.out[j] = smCall'.kps[j]
                /\ sm'.fx[j].init /\ sm'.fx[j].lastX = smCall'.kps[j].x
                /\ sm'.fy[j].init /\ sm'.fy[j].lastX = smCall'.kps[j].y]_vars

\* ------------------------------------------------------------------------
\* SpecDepth: the depth metrics of a calibrated tick on any knee angle and
\* hip height, in either component
\* ------------------------------------------------------------------------
\* knee angles from 0 to 190 degrees in steps of 10, and the neighbours of
\* the two targets and of 180
DepthKnees == {d * 1000 : d \in 0..19} \cup {4999, 5001, 5999, 6001, 17999, 18001}
\* hip heights against a reference of 0.30, with the scale unit 0.05 or 0.09
DepthHips == {[hipY |-> 0, scale |-> 500], [hipY |-> 3100, scale |-> 500],
              [hipY |-> 3300, scale |-> 900], [hipY |-> 10000, scale |-> 500]}

DepthEval(kneeNow, nowHipY, s) ==
    /\ \E d \in {Depths(kneeNow, nowHipY, [topY |-> 3000, scale |-> s])} :
          depthCall' = [cur |-> [made |-> TRUE, knee |-> kneeNow, hipY |-> nowHipY,
                                 topY |-> 3000, scale |-> s,
                                 hip |-> d.hip, kneeDepth |-> d.knee, fsm |-> d.fsm],
                        prev |-> [NoDepthEval EXCEPT !.made = TRUE, !.knee = depthCall.cur.knee,
                                     !.kneeDepth = depthCall.cur.kneeDepth]]
    /\ UNCHANGED <<fsmVars, gateVars, rulesVars, loopVars, obsVars, sessVars,
                   smVars, scaleCall, poseVars, tts, cam, hudVars>>

NextDepth ==
    \E kneeNow \in DepthKnees, h \in DepthHips : DepthEval(kneeNow, h.hipY, h.scale)

SpecDepth == Init /\ [][NextDepth]_vars

\* C25: the knee depth lies in [0,1], is 0 at 180 degrees and above, is 1 at
\* every angle at or below the target (60 degrees in the knee-only component,
\* 50 in the hip+knee one), and of two evaluations the one at the smaller
\* angle is at least as deep; the FSM driver lies in [0,1] too (it is the
\* knee depth, or the larger of hip and knee depth in the hip+knee component).
C25_KneeDepth ==
    LET c == depthCall.cur
        q == depthCall.prev
        target == IF variant = "knee" THEN 6000 ELSE 5000
    IN  c.made =>
            /\ c.kneeDepth >= 0 /\ c.kneeDepth <= 10000
            /\ c.knee >= 18000 => c.kneeDepth = 0
            /\ c.knee <= target => c.kneeDepth = 10000
            /\ (q.made /\ c.knee <= q.knee) => c.kneeDepth >= q.kneeDepth
            /\ c.fsm >= 0 /\ c.fsm <= 10000
            /\ c.fsm >= c.kneeDepth
            /\ variant = "knee" => c.fsm = c.kneeDepth
            /\ variant = "hipknee" => c.fsm >= c.hip /\ c.fsm \in {c.hip, c.kneeDepth}
\* two evaluations of the hip+knee component between 180 degrees and the
\* target, the later one at the smaller angle and strictly deeper, with the
\* hip depth above the knee depth and driving the FSM
C25_Witness ==
    /\ variant = "hipknee"
    /\ depthCall.prev.made
    /\ depthCall.cur.knee < depthCall.prev.knee
    /\ depthCall.prev.knee < 18000 /\ depthCall.cur.knee > 5000
    /\ depthCall.prev.kneeDepth > 0
    /\ depthCall.cur.kneeDepth > depthCall.prev.kneeDepth
    /\ depthCall.cur.kneeDepth < depthCall.cur.hip
    /\ depthCall.cur.fsm = depthCall.cur.hip

\* ------------------------------------------------------------------------
\* SpecScript: a session of the hip+knee component played from a script at
\* 60 Hz, with the gates at their full sizes. The subject calibrates
\* standing still with straight knees, every joint visible; then the hip
\* depth follows the script (0.30, up to the peak in 20 frames and back in
\* 20), the knees staying straight so that the hip alone drives the depth;
\* then the subject rests at 0.30.
\* ------------------------------------------------------------------------
\* frames of rest followed after the 40 frames of the trace
MaxRest == 5

\* one frame at 60 Hz, in ms (rounded up: 9 frames pass MIN_TRANSITION_MS
\* either way)
FrameMs == (1000 + 59) \div 60

\* hip depth (units of 0.0001) at frame k of script A (peak 0.55) or B (0.40)
ScriptDepth(name, k) ==
    LET peak == IF name = "A" THEN 5500 ELSE 4000
    IN  IF k <= 20 THEN 3000 + ((peak - 3000) * k) \div 20
        ELSE IF k <= 40 THEN 3000 + ((peak - 3000) * (40 - k)) \div 20
        ELSE 3000
\* the body whose hip depth is d in the calibrated session: the hip centre
\* is d * scale below topY (rounded to the unit of height)
ScriptBody(d) == [BodyAt(0) EXCEPT !.hipY = topY + (d * scale + 5000) \div 10000]

\* a frame of the calibration: the subject stands still
ScriptCalibFrame ==
    /\ variant = "hipknee"
    /\ ~calibDone
    /\ LoopBody(AllHigh, 18000, 500, BodyAt(0), FrameMs, GateWindowOf(variant),
                GateNeedOf(variant), DwellOf(variant), 40 + MaxRest)
    /\ UNCHANGED scen

\* a frame of the script (the first one chooses the script)
ScriptFrame ==
    \E name \in (IF scen.name = "none" THEN {"A", "B"} ELSE {scen.name}) :
        /\ variant = "hipknee"
        /\ calibDone /\ topY # null /\ scale # null
        /\ scen.at < 40 + MaxRest
        /\ LoopBody(AllHigh, 18000, 500, ScriptBody(ScriptDepth(name, scen.at + 1)),
                    FrameMs, GateWindowOf(variant), GateNeedOf(variant),
                    DwellOf(variant), 40 + MaxRest)
        /\ scen' = [name |-> name, at |-> scen.at + 1,
                    cues |-> scen.cues + (IF "depth" \in {frame'.emitted[i] :
                                                i \in 1..Len(frame'.emitted)}
                                          THEN 1 ELSE 0)]

NextScript == Start \/ ScriptCalibFrame \/ ScriptFrame

SpecScript == Init /\ [][NextScript]_vars

\* C26: in script A (the hip depth goes from 0.30 to 0.55 and back in 40
\* frames at 60 Hz) no 'Go deeper' cue is emitted and one rep is counted:
\* the count never exceeds 1 and is 1 once the subject rests after the trace.
C26_ScenarioA ==
    scen.name = "A" =>
        /\ scen.cues = 0
        /\ fsm.reps <= 1
        /\ scen.at >= 40 + MaxRest => fsm.reps = 1

C28_CalibratedStatus == calibrated => calibDone

\* ------------------------------------------------------------------------
\* SpecLearn: slow frames, every joint visible, upright trunk; the subject
\* of the hip+knee component reaches rep depth with the hip while the knee
\* is at 80 degrees, rises to 100 degrees between reps, can bend the knee
\* to 72 degrees with the hip higher, and to 60 degrees with the hip at 0.60
\* ------------------------------------------------------------------------
KneeGridLearn == {18000, 12000, 10000, 8000, 7200, 6000}
HipSinkLearn(kneeNow) ==
    IF kneeNow > 12000 THEN 0
    ELSE IF kneeNow > 8000 THEN 100
    ELSE IF kneeNow > 7200 THEN 230
    ELSE IF kneeNow > 6000 THEN 200
    ELSE 300

LearnFrame ==
    \E knee \in AngleInputs(kneeSmoothed, KneeGridLearn, 18000),
       trunk \in AngleInputs(trunkSmoothed, {500}, 9000) :
          \E body \in (IF variant = "hipknee" /\ calibDone
                       THEN {BodyAt(HipSinkLearn(ema(kneeSmoothed, knee)))}
                       ELSE {BodyAt(0)}) :
              LoopFrame(AllHigh, knee, trunk, body, DtSlow(variant))

NextLearn == Start \/ LearnFrame

SpecLearn == Init /\ [][NextLearn]_vars

\* C29: on every evaluated frame of the hip+knee component the coaching
\* targets in force (the learned ones once there are any, else 50 degrees
\* and 0.52) are at least as strict as the rep thresholds (knee target at
\* most 70 degrees, hip target at least 0.45), and the coaching condition of
\* the frame implies its rep condition.
C29_CoachStricter ==
    [][(variant = "hipknee" /\ frame'.kind = "full") =>
        LET kneeNow == kneeSmoothed'
            depthHip == clamp01(lastHipYRef' - topY', scale')
            kneeTarget == IF learnedCoachKneeRef # null THEN learnedCoachKneeRef
                          ELSE 5000
            hipTarget == IF learnedCoachHipRef # null THEN learnedCoachHipRef
                         ELSE 5200
        IN  /\ kneeTarget <= 7000
            /\ hipTarget >= 4500
            /\ (kneeNow <= kneeTarget \/ depthHip >= hipTarget)
                  => (kneeNow <= 7000 \/ depthHip >= 4500)]_vars

\* ------------------------------------------------------------------------
\* SpecPose: the calls of initPose made on one page. landmarker is the module
\* variable (TRUE once it holds a PoseLandmarker), initCalls[i] is where the
\* i-th call stands, created counts the landmarkers createFromOptions has
\* delivered
\* ------------------------------------------------------------------------
MaxInitCalls == 4

NotPose == <<fsmVars, gateVars, rulesVars, loopVars, obsVars, sessVars,
             smVars, depthCall, scaleCall, tts, cam, hudVars>>

\* if (landmarker) return; ... await FilesetResolver.forVisionTasks(...)
InitPoseCall ==
    /\ Len(initCalls) < MaxInitCalls
    /\ initCalls' = Append(initCalls, IF landmarker THEN "returned" ELSE "fileset")
    /\ UNCHANGED <<landmarker, created, NotPose>>

\* the fileset arrives: ... await PoseLandmarker.createFromOptions(fileset, ...)
InitPoseFileset(i) ==
    /\ initCalls[i] = "fileset"
    /\ initCalls' = [initCalls EXCEPT ![i] = "create"]
    /\ UNCHANGED <<landmarker, created, NotPose>>

\* the landmarker arrives: landmarker = ...
InitPoseCreated(i) ==
    /\ initCalls[i] = "create"
    /\ initCalls' = [initCalls EXCEPT ![i] = "loaded"]
    /\ landmarker' = TRUE
    /\ created' = created + 1
    /\ UNCHANGED NotPose

\* either download fails: the await throws and the call ends
InitPoseRejected(i) ==
    /\ initCalls[i] \in {"fileset", "create"}
    /\ initCalls' = [initCalls EXCEPT ![i] = "thrown"]
    /\ UNCHANGED <<landmarker, created, NotPose>>

NextPose ==
    \/ InitPoseCall
    \/ \E i \in 1..Len(initCalls) : InitPoseFileset(i)
    \/ \E i \in 1..Len(initCalls) : InitPoseCreated(i)
    \/ \E i \in 1..Len(initCalls) : InitPoseRejected(i)

SpecPose == Init /\ [][NextPose]_vars

\* C30: whatever the number of initPose calls and however they overlap, at
\* most one landmarker is created on a page, and a call made once the
\* landmarker exists returns without loading anything.
C30_CreatedOnce ==
    /\ created <= 1
    /\ \A i \in 1..Len(initCalls) :
          initCalls[i] = "returned" => landmarker

\* ------------------------------------------------------------------------
\* SpecTTS: the hook useTTS(1200) of one component. The clock advances, the
\* audio button enables, speak is called through any closure rendered so far
\* and test at any time; window.speechSynthesis is read at every call
\* ------------------------------------------------------------------------
MaxNow == 4000
TtsDts == {400, 1199, 1200}

NotTTS == <<fsmVars, gateVars, rulesVars, loopVars, obsVars, pc, raf, useFront,
            session, stale, staleTicks, smVars, depthCall, scaleCall,
            poseVars, cam, hudVars>>

\* performance.now() grows
TtsTick(d) ==
    /\ tts.now + d <= MaxNow
    /\ tts' = [tts EXCEPT !.now = tts.now + d]
    /\ UNCHANGED <<enabled, NotTTS>>

\* enable(): setEnabled(true)
TtsEnable ==
    /\ ~enabled
    /\ enabled' = TRUE
    /\ UNCHANGED <<tts, NotTTS>>

\* if (!enabled) return; if (!synth) return;
\* if (now - lastSpoke.current < minGapMs) return;
SpeakAllowed_NoGap(closure, synth, now, last) == closure /\ synth
SpeakAllowed(closure, synth, now, last) ==
    closure /\ synth /\ ~(now - last < MinGapMs)

\* speak(text) through a closure that holds the given enabled; synth.speak
\* may throw, and then lastSpoke is not written
TtsSpeak(closure, synth, throws) ==
    \E hand \in {SpeakAllowed(closure, synth, tts.now, tts.lastSpoke) /\ ~throws} :
        /\ tts' = [tts EXCEPT !.n = 1 - tts.n, !.op = "speak", !.handed = hand,
                              !.closure = closure, !.synth = synth,
                              !.before = tts.lastSpoke,
                              !.lastSpoke = IF hand THEN tts.now ELSE tts.lastSpoke,
                              !.spoken = IF hand THEN tts.now ELSE tts.spoken,
                              !.spokenBefore = IF hand THEN tts.spoken
                                               ELSE tts.spokenBefore]
        /\ UNCHANGED <<enabled, NotTTS>>

\* test(text): no look at enabled nor at lastSpoke; a throw is caught
TtsTest(synth, throws) ==
    \E hand \in {synth /\ ~throws} :
        /\ tts' = [tts EXCEPT !.n = 1 - tts.n, !.op = "test", !.handed = hand,
                              !.closure = FALSE, !.synth = synth,
                              !.before = tts.lastSpoke,
                              !.lastSpoke = IF hand THEN tts.now ELSE tts.lastSpoke,
                              !.tested = IF hand THEN tts.now ELSE tts.tested]
        /\ UNCHANGED <<enabled, NotTTS>>

NextTTS ==
    \/ \E d \in TtsDts : TtsTick(d)
    \/ TtsEnable
    \/ \E closure \in {FALSE, enabled}, synth \in BOOLEAN, throws \in BOOLEAN :
          TtsSpeak(closure, synth, throws)
    \/ \E synth \in BOOLEAN, throws \in BOOLEAN : TtsTest(synth, throws)

SpecTTS == Init /\ [][NextTTS]_vars

\* C31: a speak call hands an utterance over only if audio is enabled, the
\* synthesiser is there and 1200 ms or more have passed since lastSpoke; a
\* call that hands nothing over leaves lastSpoke as it was; an utterance of
\* speak comes 1200 ms or more after the previous utterance of speak, and a
\* speak less than 1200 ms after a test() that spoke hands nothing over.
C31_SpeakGate ==
    [][(tts'.n # tts.n /\ tts'.op = "speak") =>
        /\ tts'.handed => /\ enabled /\ tts'.closure /\ tts'.synth
                          /\ tts.now - tts.lastSpoke >= 1200
        /\ ~tts'.handed => tts'.lastSpoke = tts.lastSpoke
        /\ (tts'.handed /\ tts.spoken # null) => tts.now - tts.spoken >= 1200
        /\ (tts.tested # null /\ tts.now - tts.tested < 1200) => ~tts'.handed]_vars

\* a speak call dropped 1199 ms after a test(), after speak has spoken twice
C31_Witness ==
    /\ tts.op = "speak" /\ ~tts.handed /\ tts.closure /\ tts.synth
    /\ tts.tested # null /\ tts.now - tts.tested = 1199
    /\ tts.spokenBefore # null

\* C32: an evaluation emits 'Chest up' only with depthAchieved true; with
\* depthAchieved false it emits 'Go deeper' or nothing, whatever the trunk
\* deviation.
C32_ChestUpNeedsDepth ==
    (frame.kind = "full" /\ frame.shouldEval) =>
        /\ frame.emitted = <<"trunk">> => frame.depthAchieved
        /\ ~frame.depthAchieved => frame.emitted \in {<<>>, <<"depth">>}

MaxStarts == 3

NotCam == <<fsmVars, gateVars, rulesVars, loopVars, obsVars, sessVars,
            smVars, depthCall, scaleCall, poseVars, tts, hudVars>>

\* if (currentStream.current) currentStream.current.getTracks().forEach(stop)
StopCurrent(c) == [c EXCEPT !.live = c.live \ {c.current}]

\* the effect runs (mount), or its cleanup and the next run (useFront or
\* enabled changed): start() is called and reaches await initPose()
CamEffectRun ==
    /\ cam.starts = <<>> \/ cam.mounted
    /\ Len(cam.starts) < MaxStarts
    /\ cam' = [StopCurrent(cam) EXCEPT !.starts = Append(cam.starts, "initPose"),
                                      !.mounted = TRUE]
    /\ UNCHANGED NotCam

\* unmount: the cleanup alone
CamUnmount ==
    /\ cam.mounted
    /\ cam' = [StopCurrent(cam) EXCEPT !.mounted = FALSE]
    /\ UNCHANGED NotCam

\* initPose() is through: stop and forget the stream of currentStream, then
\* return without mediaDevices, or call getUserMedia and await it
CamInitPose(i, devices) ==
    /\ cam.starts[i] = "initPose"
    /\ cam' = [StopCurrent(cam) EXCEPT
                  !.current = 0,
                  !.starts[i] = IF devices THEN "getUserMedia" ELSE "failed"]
    /\ UNCHANGED NotCam

\* getUserMedia resolves (at the first or the second attempt):
\* currentStream.current = stream; v.srcObject = stream; await v.play()
CamStream(i) ==
    /\ cam.starts[i] = "getUserMedia"
    /\ cam' = [cam EXCEPT !.acquired = cam.acquired + 1,
                          !.live = cam.live \cup {cam.acquired + 1},
                          !.current = cam.acquired + 1,
                          !.starts[i] = "play"]
    /\ UNCHANGED NotCam

\* both getUserMedia attempts reject: start() rejects into console.error
CamNoStream(i) ==
    /\ cam.starts[i] = "getUserMedia"
    /\ cam' = [cam EXCEPT !.starts[i] = "failed"]
    /\ UNCHANGED NotCam

\* v.play() resolves and the loop is scheduled, or it rejects
CamPlay(i, ok) ==
    /\ cam.starts[i] = "play"
    /\ cam' = [cam EXCEPT !.starts[i] = IF ok THEN "loop" ELSE "failed"]
    /\ UNCHANGED NotCam

NextStream ==
    \/ CamEffectRun
    \/ CamUnmount
    \/ \E i \in 1..Len(cam.starts), devices \in BOOLEAN : CamInitPose(i, devices)
    \/ \E i \in 1..Len(cam.starts) : CamStream(i)
    \/ \E i \in 1..Len(cam.starts) : CamNoStream(i)
    \/ \E i \in 1..Len(cam.starts), ok \in BOOLEAN : CamPlay(i, ok)

SpecStream == Init /\ [][NextStream]_vars

\* C34: once no start() is pending any more, at most one of the streams
\* acquired still has live tracks, however the cleanups and the starts of
\* successive sessions interleave.
C34_OneLiveStream ==
    (\A i \in 1..Len(cam.starts) : cam.starts[i] \in {"loop", "failed"})
        => Cardinality(cam.live) <= 1

\* C35: the learned coaching targets of the hip+knee component are assigned
\* at most once, together, on the frame that enters bottom with repOK for
\* the second time, as the median of the two recorded hip depths minus 0.01
\* clamped to [0.50, 0.65] and the median of the two recorded knee angles
\* clamped to [50, 75] degrees; until then the coaching condition of a frame
\* is knee <= 50 degrees or hip depth >= 0.52.
C35_LearnOnce ==
    [][variant = "hipknee" =>
        LET second == Len(goodBottomHip) = 1 /\ Len(goodBottomHip') = 2
            h == goodBottomHip'
            k == goodBottomKnee'
            n == Len(coachGate')
        IN  /\ (learnedCoachHipRef' # learnedCoachHipRef
                  \/ learnedCoachKneeRef' # learnedCoachKneeRef) =>
                  /\ learnedCoachHipRef = null /\ learnedCoachKneeRef = null
                  /\ second
            /\ second =>
                  /\ fsm.state # "bottom" /\ fsm'.state = "bottom"
                  /\ GateResult(repGate', GATE_NEED(variant))
                  /\ learnedCoachHipRef' =
                        Max(5000, Min(6500, (h[1] + h[2]) \div 2 - 100))
                  /\ learnedCoachKneeRef' =
                        Max(5000, Min(7500, (k[1] + k[2]) \div 2))
            /\ learnedCoachHipRef' # null =>
                  learnedCoachHipRef' >= 5000 /\ learnedCoachHipRef' <= 6500
            /\ learnedCoachKneeRef' # null =>
                  learnedCoachKneeRef' >= 5000 /\ learnedCoachKneeRef' <= 7500
            /\ (frame'.kind = "full" /\ frame' # frame /\ n > 0
                  /\ learnedCoachHipRef = null) =>
                  (coachGate'[n] <=>
                      (kneeSmoothed' <= 5000
                         \/ clamp01(lastHipYRef' - topY', scale') >= 5200))]_vars

\* the targets are learned strictly inside their ranges
C35_Witness ==
    /\ variant = "hipknee" /\ Len(goodBottomHip) = 2
    /\ learnedCoachHipRef > 5000 /\ learnedCoachHipRef < 6500
    /\ learnedCoachKneeRef > 5000 /\ learnedCoachKneeRef < 7500

\* ------------------------------------------------------------------------
\* SpecScale: scaleCandidate of the hip+knee component on upright subjects
\* of several sizes and positions in the image (y grows downwards), with
\* the ankles seen well, at the threshold, or not
\* ------------------------------------------------------------------------
ScaleBodies ==
    {[hipY |-> h, kneeY |-> k, shY |-> sh, anY |-> an] :
        sh \in {1000, 2000, 3500}, h \in {4400, 5000}, k \in {5020, 6000, 7000},
        an \in {7500, 9000}}
ScaleKps ==
    {[j \in Joints |-> IF j = "la" THEN l ELSE IF j = "ra" THEN r ELSE 90] :
        l \in {45, 46, 90}, r \in {10, 46}}

ScaleEval(kps, body) ==
    /\ scaleCall' = [made |-> TRUE, kps |-> kps, body |-> body,
                     cand |-> ScaleCandidate(AnkVis(kps), body)]
    /\ UNCHANGED <<fsmVars, gateVars, rulesVars, loopVars, obsVars, sessVars,
                   smVars, depthCall, poseVars, tts, cam, hudVars>>

NextScale == \E kps \in ScaleKps, body \in ScaleBodies : ScaleEval(kps, body)

SpecScale == Init /\ [][NextScale]_vars

\* C36: for an upright subject (shoulder above ankle, hip above knee) the
\* scale candidate is the shoulder-to-ankle span when both ankles are seen
\* above 0.45, and 1.8 hip-to-knee spans otherwise, each span floored at
\* 0.05; it is never below 0.05.
C36_ScaleCandidate ==
    LET b == scaleCall.body
        ankVis == scaleCall.kps["la"] > 45 /\ scaleCall.kps["ra"] > 45
    IN  (scaleCall.made /\ b.shY < b.anY /\ b.hipY < b.kneeY) =>
            /\ scaleCall.cand >= 500
            /\ scaleCall.cand = IF ankVis THEN Max(500, b.anY - b.shY)
                                ELSE (Max(500, b.kneeY - b.hipY) * 18) \div 10

\* ------------------------------------------------------------------------
\* SpecProfile: slow frames of an upright subject whose joints are all seen
\* well, all seen poorly, or all lost by the detector
\* ------------------------------------------------------------------------
AllLow == [j \in Joints |-> 10]

ProfileFrame ==
    \E raw \in VisPatterns \cup {AllLow} :
        \E knee \in AngleInputs(kneeSmoothed, KneeGridCalib, 18000),
           trunk \in AngleInputs(trunkSmoothed, {500}, 9000) :
              \E body \in Bodies(ema(kneeSmoothed, knee)) :
                  LoopFrame(raw, knee, trunk, body, DtSlow(variant))

NextProfile == Start \/ ProfileFrame

SpecProfile == Init /\ [][NextProfile]_vars

\* C37: profileOK is true on a frame only if the detector reports, on that
\* frame, a visibility above 0.55 for the hip and the knee of one side.
C37_ProfileNow ==
    (frame.kind \in {"uncal", "full"} /\ frame.profileOK) =>
        \/ frame.raw["lh"] > 55 /\ frame.raw["lk"] > 55
        \/ frame.raw["rh"] > 55 /\ frame.raw["rk"] > 55

\* C38: on a frame that steps the FSM, the velocity stepFSM compares with its
\* thresholds (the driver of the frame minus ctx.lastHipY, 0 on the first
\* step) is the driver of the frame minus the driver of the frame before,
\* also when the frames before were throttled.
C38_OneFrameVelocity ==
    [][(/\ frame'.kind = "full"
        /\ (sinceTransition' > MIN_TRANSITION_MS(variant)
              \/ fsm'.state # fsm.state)
        /\ fsm.lastHipY # null) =>
            prevDepthFSMRef' - fsm.lastHipY
                = prevDepthFSMRef' - prevDepthFSMRef]_vars

\* C39: in every context reached from createFSM() by stepFSM calls, state
\* bottom comes with depthReached true, and the context returned by a call
\* that moved ascent -> lockout has depthReached false, rep counted or not.
C39_DepthFlag ==
    /\ fsm.state = "bottom" => fsm.depthReached
    /\ (call.from = "ascent" /\ fsm.state = "lockout") => ~fsm.depthReached

\* a lockout entered without a rep, with a rep counted before
C39_Witness ==
    /\ call.from = "ascent" /\ fsm.state = "lockout"
    /\ ~cycleOK /\ fsm.reps = 1

\* C40: in the knee-only component the two gates hold the same number of
\* values, a true in the coaching gate stands over a true in the rep gate,
\* and so the coaching gate's output implies the rep gate's, on every frame
\* and across the lockout -> descent resets.
C40_CoachImpliesRepGate ==
    variant = "knee" =>
        /\ Len(coachGate) = Len(repGate)
        /\ \A i \in 1..Len(coachGate) : coachGate[i] => repGate[i]
        /\ GateResult(coachGate, GATE_NEED(variant))
              => GateResult(repGate, GATE_NEED(variant))

\* after a reset: the coaching gate gives true over a window in which the
\* rep gate holds a true the coaching gate does not
C40_Witness ==
    /\ variant = "knee" /\ fsm.reps >= 1 /\ frame.kind = "full"
    /\ GateResult(coachGate, GATE_NEED(variant))
    /\ \E i \in 1..Len(repGate) : repGate[i] /\ ~coachGate[i]

====
